---- MODULE Spec2Model ----
(***************************************************************************)
(* A model of the cherrydesk file organiser: the batch executor            *)
(* (src/src/main/executor.ts), the tree diff (src/src/main/utils/diff.ts)   *)
(* and the organisation strategies.                                         *)
(*                                                                          *)
(* A file or directory name is a sequence of one-character strings, a path  *)
(* is the sequence of its components below "/", so that path.extname,       *)
(* path.basename, path.dirname and path.join are computed on characters     *)
(* and components as Node computes them.                                    *)
(***************************************************************************)
EXTENDS Integers, Sequences, FiniteSets, TLC

\* ------------------------------------------------------------------ bounds
MaxOps == 2       \* operations in one batch handed to execute
MaxBatches == 2   \* execute calls in one behaviour
MaxUndos == 2     \* undoLastBatch calls in one behaviour
MaxTicks == 1     \* milliseconds the clock may advance in one behaviour
Clock0 == 1000    \* reading of Date.now() at the start

\* ------------------------------------------------------- sequence helpers
Last(s) == s[Len(s)]

Front(s) == SubSeq(s, 1, Len(s) - 1)

RECURSIVE Reverse(_)
\* Array.prototype.reverse
Reverse(s) == IF s = <<>> THEN <<>> ELSE Append(Reverse(Tail(s)), Head(s))

IsPrefix(a, b) == Len(a) <= Len(b) /\ SubSeq(b, 1, Len(a)) = a

IsSuffix(a, b) == Len(a) <= Len(b) /\ SubSeq(b, Len(b) - Len(a) + 1, Len(b)) = a

Max(S) == CHOOSE x \in S : \A y \in S : y <= x

DigitChar(d) == <<"0", "1", "2", "3", "4", "5", "6", "7", "8", "9">>[d + 1]

RECURSIVE ToDigits(_)
\* Number.prototype.toString of a natural number: its decimal digits
ToDigits(n) == IF n < 10 THEN <<DigitChar(n)>>
               ELSE Append(ToDigits(n \div 10), DigitChar(n % 10))

\* ------------------------------------------------------------ path module
\* path.extname of a name: from the last "." to the end; empty when there is
\* no ".", when the only "." leads the name, or when the name is "..".
extname(name) ==
    LET dots == {i \in 1..Len(name) : name[i] = "."}
    IN  IF dots = {} THEN <<>>
        ELSE IF Max(dots) = 1 THEN <<>>
        ELSE IF name = <<".", ".">> THEN <<>>
        ELSE SubSeq(name, Max(dots), Len(name))

\* path.basename(p, ext) of a name: the name without the suffix ext, unless
\* ext is empty or is the whole name.
basename(name, ext) ==
    IF ext # <<>> /\ ext # name /\ IsSuffix(ext, name)
    THEN SubSeq(name, 1, Len(name) - Len(ext))
    ELSE name

\* path.dirname: the path without its last component ("/" for "/").
dirname(p) == IF p = <<>> THEN <<>> ELSE Front(p)

RECURSIVE normalize(_)
\* path.normalize on components: "." and "" vanish, ".." removes the
\* component before it (and vanishes at the root).
normalize(p) ==
    IF p = <<>> THEN <<>>
    ELSE LET front == normalize(Front(p))
             c == Last(p)
         IN  IF c = <<".">> \/ c = <<>> THEN front
             ELSE IF c = <<".", ".">> THEN dirname(front)
             ELSE Append(front, c)

\* path.join(dir, name)
join(dir, name) == normalize(Append(dir, name))

\* path.resolve of an absolute path
resolve(p) == normalize(p)

\* ------------------------------------------------------------- the disk
VARIABLES
    files,    \* regular files on disk: path -> identity of the file's content
    dirs,     \* directories on disk, a set of paths
    logs,     \* the log directory: timestamp t -> content of batch-t.json
    now,      \* Date.now()
    call,     \* per caller: the executor call in flight and its locals
    last,     \* summary of the call that just returned, and of the one before
    lost,     \* files destroyed by a rename onto their path
    nExec,    \* execute calls started
    nUndo,    \* undoLastBatch calls started
    heap,     \* the FileNode objects: address -> node, children as addresses
    snapshot, \* address of the scanned root
    scanned,  \* the snapshot as it was read at the scan, as a value
    working,  \* address of the proposed root, 0 before the first preview
              \* (workingTree is null), -1 when the list of roots is empty
    applied,  \* what the last preview call did: strategy, inputs and outcome
    diffed,   \* what the last calculateDiff call was given and returned
    lastMove, \* what the last moveFileInTree call was given and returned
    history,  \* the trees handed to moveFileInTree since the last preview,
              \* each with its value at the time of the call
    nMoves,   \* moveFileInTree calls made
    folder,   \* what the scanner reads: path -> what stat and readdir answer
    scan,     \* what the last scanDirectory call was given and returned
    flow,     \* the renderer's Apply and Undo: phase, roots to go, disk before and after
    agent     \* the Agent: its configuration, the run or resume call in flight and its locals

execVars == <<files, dirs, logs, now, call, last, lost, nExec, nUndo>>

treeVars == <<heap, snapshot, scanned, working, applied, diffed, lastMove, history, nMoves>>

scanVars == <<folder, scan>>

vars == <<execVars, treeVars, scanVars, flow, agent>>

Exists(fl, ds, p) == p \in DOMAIN fl \/ p \in ds

\* fs.mkdir(p, {recursive: true}): creates p and its missing ancestors;
\* fails when p or an ancestor is a regular file.
MkdirMutantNoop(fl, ds, p) == [ok |-> TRUE, dirs |-> ds, msg |-> ""]

Mkdirp(fl, ds, p) ==
    LET pre == {SubSeq(p, 1, k) : k \in 1..Len(p)}
    IN  IF p \in DOMAIN fl THEN [ok |-> FALSE, dirs |-> ds, msg |-> "EEXIST"]
        ELSE IF pre \cap DOMAIN fl # {} THEN [ok |-> FALSE, dirs |-> ds, msg |-> "ENOTDIR"]
        ELSE [ok |-> TRUE, dirs |-> ds \cup pre, msg |-> ""]

Rebase(src, dst, q) == dst \o SubSeq(q, Len(src) + 1, Len(q))

Fail(fl, ds, m) == [ok |-> FALSE, files |-> fl, dirs |-> ds, msg |-> m, lost |-> {}]

\* fs.rename(src, dst), as rename(2): a file replaces an existing file at
\* dst; a directory moves with everything below it.
Rename(fl, ds, src, dst) ==
    IF ~Exists(fl, ds, src) THEN Fail(fl, ds, "ENOENT")
    ELSE IF dst = <<>> THEN Fail(fl, ds, "EBUSY")
    ELSE IF dirname(dst) \in DOMAIN fl THEN Fail(fl, ds, "ENOTDIR")
    ELSE IF dirname(dst) # <<>> /\ dirname(dst) \notin ds THEN Fail(fl, ds, "ENOENT")
    ELSE IF src = dst THEN [ok |-> TRUE, files |-> fl, dirs |-> ds, msg |-> "", lost |-> {}]
    ELSE IF src \in DOMAIN fl THEN
        IF dst \in ds THEN Fail(fl, ds, "EISDIR")
        ELSE [ok |-> TRUE,
              files |-> [q \in (DOMAIN fl \ {src}) \cup {dst} |->
                            IF q = dst THEN fl[src] ELSE fl[q]],
              dirs |-> ds,
              msg |-> "",
              lost |-> IF dst \in DOMAIN fl THEN {fl[dst]} ELSE {}]
    ELSE \* src is a directory
        IF dst \in DOMAIN fl THEN Fail(fl, ds, "ENOTDIR")
        ELSE IF IsPrefix(src, dst) THEN Fail(fl, ds, "EINVAL")
        ELSE IF \E q \in DOMAIN fl \cup ds : q # dst /\ IsPrefix(dst, q)
             THEN Fail(fl, ds, "ENOTEMPTY")
        ELSE LET under == {q \in DOMAIN fl : IsPrefix(src, q)}
                 keep == DOMAIN fl \ under
                 moved == {Rebase(src, dst, q) : q \in under}
             IN  [ok |-> TRUE,
                  files |-> [q \in keep \cup moved |->
                                IF q \in keep THEN fl[q]
                                ELSE fl[CHOOSE o \in under : Rebase(src, dst, o) = q]],
                  dirs |-> {q \in ds : ~IsPrefix(src, q)}
                              \cup {Rebase(src, dst, q) : q \in {d \in ds : IsPrefix(src, d)}},
                  msg |-> "",
                  lost |-> {}]

\* ------------------------------------------------------ BatchExecutor
\* `${name} (${counter})${ext}`
Suffixed(name, counter, ext) ==
    name \o <<" ", "(">> \o ToDigits(counter) \o <<")">> \o ext

RECURSIVE ProbeFrom(_, _, _, _)
\* the while (true) loop of getUniquePath: the first counter whose name is free
ProbeFrom(fl, ds, targetPath, counter) ==
    LET ext == extname(Last(targetPath))
        name == basename(Last(targetPath), ext)
        dir == dirname(targetPath)
        newPath == join(dir, Suffixed(name, counter, ext))
    IN  IF Exists(fl, ds, newPath)
        THEN ProbeFrom(fl, ds, targetPath, counter + 1)
        ELSE newPath

GetUniquePathMutantNoProbe(fl, ds, targetPath) == targetPath

GetUniquePathMutantFirstSuffix(fl, ds, targetPath) ==
    IF Exists(fl, ds, targetPath)
    THEN join(dirname(targetPath),
              Suffixed(basename(Last(targetPath), extname(Last(targetPath))), 1,
                       extname(Last(targetPath))))
    ELSE targetPath

getUniquePath(fl, ds, targetPath) ==
    IF Exists(fl, ds, targetPath)
    THEN ProbeFrom(fl, ds, targetPath, 1)
    ELSE targetPath

\* The names of the log directory. Array.prototype.sort orders strings by
\* their UTF-16 code units.
CharCode(c) ==
    LET upper == <<"A", "B", "C", "D", "E", "F", "G", "H", "I", "J", "K", "L", "M",
                   "N", "O", "P", "Q", "R", "S", "T", "U", "V", "W", "X", "Y", "Z">>
        lower == <<"a", "b", "c", "d", "e", "f", "g", "h", "i", "j", "k", "l", "m",
                   "n", "o", "p", "q", "r", "s", "t", "u", "v", "w", "x", "y", "z">>
        digit == <<"0", "1", "2", "3", "4", "5", "6", "7", "8", "9">>
    IN  CASE c = " " -> 32 [] c = "(" -> 40 [] c = ")" -> 41 [] c = "-" -> 45
          [] c = "." -> 46
          [] \E k \in 1..10 : digit[k] = c -> 47 + (CHOOSE k \in 1..10 : digit[k] = c)
          [] \E k \in 1..26 : upper[k] = c -> 64 + (CHOOSE k \in 1..26 : upper[k] = c)
          [] \E k \in 1..26 : lower[k] = c -> 96 + (CHOOSE k \in 1..26 : lower[k] = c)

RECURSIVE StrLess(_, _)
StrLess(a, b) ==
    IF b = <<>> THEN FALSE
    ELSE IF a = <<>> THEN TRUE
    ELSE IF CharCode(Head(a)) # CharCode(Head(b)) THEN CharCode(Head(a)) < CharCode(Head(b))
    ELSE StrLess(Tail(a), Tail(b))

\* `batch-${logId}.json`
LogName(t) == <<"b", "a", "t", "c", "h", "-">> \o ToDigits(t) \o <<".", "j", "s", "o", "n">>

IsLogName(f) ==
    /\ IsPrefix(<<"b", "a", "t", "c", "h", "-">>, f)
    /\ IsSuffix(<<".", "j", "s", "o", "n">>, f)

\* logs[0] after filter, sort and reverse: the name that sorts last
LatestLogMutantOldest(lg) ==
    CHOOSE t \in DOMAIN lg : \A u \in DOMAIN lg : u = t \/ StrLess(LogName(t), LogName(u))

LatestLog(lg) ==
    CHOOSE t \in {u \in DOMAIN lg : IsLogName(LogName(u))} :
        \A u \in {v \in DOMAIN lg : IsLogName(LogName(v))} :
            u = t \/ StrLess(LogName(u), LogName(t))

\* JSON.stringify of a LogEntry followed by JSON.parse when it is read back
LogEntry(logId, executedOps) ==
    [timestamp |-> logId,
     operations |-> [k \in 1..Len(executedOps) |->
                        [source |-> executedOps[k].source,
                         destination |-> executedOps[k].destination]]]

MoveError(source, msg) == [text |-> "Failed to move", path |-> source, msg |-> msg]

RevertError(destination, msg) == [text |-> "Failed to revert", path |-> destination, msg |-> msg]

NoHistoryError == [text |-> "No undo history found", path |-> <<>>, msg |-> ""]

ResultMutantAlwaysSuccess(executedOps, errors) ==
    [success |-> TRUE, processed |-> Len(executedOps), errors |-> errors]

\* lines 99-103 and 147-151: the ExecutionResult
Result(executedOps, errors) ==
    [success |-> errors = <<>>, processed |-> Len(executedOps), errors |-> errors]

NoHistoryResultMutantSuccess ==
    [success |-> TRUE, processed |-> 0, errors |-> <<>>]

\* line 116: the value returned when the log directory holds no batch log
NoHistoryResult ==
    [success |-> FALSE, processed |-> 0, errors |-> <<NoHistoryError>>]

NoFiles == [q \in {} |-> 0]

NoLogs == [t \in {} |-> 0]

Idle ==
    [pc |-> "idle", ops |-> <<>>, i |-> 0, uniqueDest |-> <<>>, executedOps |-> <<>>,
     errors |-> <<>>, logId |-> 0, outcome |-> <<>>, filesBefore |-> NoFiles,
     dirsBefore |-> {}, logsBefore |-> NoLogs, before |-> <<>>, overlapped |-> FALSE]

NoCall ==
    [kind |-> "none", ops |-> <<>>, executedOps |-> <<>>, result |-> Result(<<>>, <<>>),
     logId |-> 0, outcome |-> <<>>, filesBefore |-> NoFiles, dirsBefore |-> {},
     filesAfter |-> NoFiles, logsBefore |-> NoLogs, logsAfter |-> NoLogs, prev |-> <<>>]

\* What is kept of the call before the last one.
Brief(s) ==
    [kind |-> s.kind, nOps |-> Len(s.ops), success |-> s.result.success,
     processed |-> s.result.processed, logId |-> s.logId, outcome |-> s.outcome,
     filesBefore |-> s.filesBefore, nLogsBefore |-> Cardinality(DOMAIN s.logsBefore)]

\* The summary of a call as it returns; prev keeps the call before it.
Summary(kind, ops, c, result, fl, lg) ==
    [kind |-> kind, ops |-> ops, executedOps |-> c.executedOps, result |-> result,
     logId |-> c.logId, outcome |-> c.outcome, filesBefore |-> c.filesBefore,
     dirsBefore |-> c.dirsBefore, filesAfter |-> fl,
     logsBefore |-> c.logsBefore, logsAfter |-> lg,
     prev |-> c.before]

\* ------------------------------------------------------ names and inputs
nA == <<"a", ".", "t">>
nE == <<"e">>
nD == <<"d">>
nA1 == <<"a", " ", "(", "1", ")", ".", "t">>

Move(src, dst) == [type |-> "move", source |-> src, destination |-> dst]

\* The moves a batch is drawn from: /a.t and /e/a.t both sent to /d/a.t,
\* /e/a.t sent below a directory named like the file /a.t, and /e/a.t sent
\* to the path of the file /a.t.
Ops ==
    { Move(<<nA>>, <<nD, nA>>),
      Move(<<nE, nA>>, <<nD, nA>>),
      Move(<<nE, nA>>, <<nA, nA>>),
      Move(<<nE, nA>>, <<nA>>) }

\* The batches: up to MaxOps moves, no move twice (calculateDiff emits at
\* most one move per file node).
OpLists ==
    {l \in UNION {[1..n -> Ops] : n \in 1..MaxOps} :
        \A i, j \in 1..Len(l) : i # j => l[i] # l[j]}

\* The disks a behaviour starts from: /a.t and /e/a.t, with or without an
\* older "a (1).t" in the directory the moves go to.
InitialDisks ==
    { [fl |-> (<<nA>> :> 1) @@ (<<nE, nA>> :> 2), ds |-> {<<nE>>}],
      [fl |-> (<<nA>> :> 1) @@ (<<nE, nA>> :> 2) @@ (<<nD, nA1>> :> 3),
       ds |-> {<<nE>>, <<nD>>}] }

Callers == {1, 2}

\* no reply of the language model: the strategy does not ask for one
NoReply == [kind |-> "none", entries |-> <<>>]

\* no preview call made yet
NoPreview ==
    [strategy |-> "none", reply |-> NoReply, ok |-> TRUE, error |-> "", root |-> 0, result |-> 0]

\* no calculateDiff call made yet
NoDiff == [of |-> "none", rootPath |-> <<>>, root |-> 0, ops |-> <<>>]

\* no moveFileInTree call made yet
NoMove ==
    [called |-> FALSE, sourcePath |-> <<>>, targetPath |-> <<>>, input |-> <<>>,
     nodeToMove |-> 0, output |-> <<>>]

\* no folder scanned
NoTree ==
    /\ heap = <<>>
    /\ snapshot = 0
    /\ scanned = <<>>
    /\ working = 0
    /\ applied = NoPreview
    /\ diffed = NoDiff
    /\ lastMove = NoMove
    /\ history = <<>>
    /\ nMoves = 0

\* the executor alone, on one of the disks
\* before any scan of the scanner's own folder
NoScan ==
    [called |-> FALSE, dirPath |-> <<>>, ok |-> FALSE, error |-> "", root |-> <<>>,
     fileCount |-> 0, totalSize |-> 0]

NoScanner ==
    /\ folder = <<>>
    /\ scan = NoScan

\* App.tsx before any Apply: canUndo is false
NoFlow ==
    flow = [phase |-> "idle", todo |-> <<>>, filesBefore |-> NoFiles, filesAfter |-> NoFiles]

\* what run and resume return: { state, finalAnswer } or { state, error }
NoReturn == [kind |-> "none", state |-> <<>>, finalAnswer |-> "", error |-> ""]

\* no Agent constructed
NoAgent ==
    agent = [pc |-> "none", entry |-> "none", config |-> [set |-> FALSE, value |-> 0],
             maxIterations |-> 0, toolExecutor |-> FALSE, start |-> <<>>,
             messages |-> <<>>, iterations |-> 0, trace |-> <<>>, todo |-> <<>>,
             asked |-> 0, result |-> NoReturn]

InitExec ==
    /\ \E d \in InitialDisks : files = d.fl /\ dirs = d.ds
    /\ logs = NoLogs
    /\ now = Clock0
    /\ call = [c \in Callers |-> Idle]
    /\ last = NoCall
    /\ lost = {}
    /\ nExec = 0
    /\ nUndo = 0
    /\ NoScanner
    /\ NoFlow
    /\ NoAgent
    /\ NoTree

\* The calls in flight once caller c has started the call with the locals
\* given: a call that runs while another one runs is marked as overlapped.
Started(c, locals) ==
    [d \in Callers |->
        IF d = c
        THEN [locals EXCEPT !.overlapped = \E e \in Callers \ {c} : call[e].pc # "idle"]
        ELSE IF call[d].pc # "idle" THEN [call[d] EXCEPT !.overlapped = TRUE]
        ELSE call[d]]

\* execute, lines 57-64: ensureLogDir, the empty lists, logId = Date.now().
\* The clock may have advanced since the call before.
BeginExecute(c, operations) ==
    /\ call[c].pc = "idle"
    /\ nExec < MaxBatches
    /\ \E t \in now..(IF now < Clock0 + MaxTicks THEN now + 1 ELSE now) :
        /\ now' = t
        /\ call' = Started(c, [Idle EXCEPT !.pc = "probe", !.ops = operations, !.i = 1,
                                            !.logId = t, !.filesBefore = files,
                                            !.dirsBefore = dirs, !.logsBefore = logs,
                                            !.before = <<Brief(last)>>])
    /\ last' = NoCall
    /\ nExec' = nExec + 1
    /\ UNCHANGED <<files, dirs, logs, lost, nUndo, treeVars, scanVars, agent>>

\* execute called on its own, outside an Apply of the renderer
StartExecute(c, operations) == BeginExecute(c, operations) /\ UNCHANGED <<flow, agent>>

\* execute, lines 66-72 of one iteration: mkdir of the destination's parent,
\* then getUniquePath; a throw of mkdir goes to the catch of lines 80-83.
ExecProbe(c) ==
    /\ call[c].pc = "probe"
    /\ call[c].i <= Len(call[c].ops)
    /\ LET op == call[c].ops[call[c].i]
           made == Mkdirp(files, dirs, dirname(op.destination))
       IN  IF made.ok
           THEN /\ dirs' = made.dirs
                /\ call' = [call EXCEPT ![c].pc = "rename",
                                        ![c].uniqueDest =
                                            getUniquePath(files, made.dirs, op.destination)]
           ELSE /\ dirs' = dirs
                /\ call' = [call EXCEPT ![c].i = @ + 1,
                                        ![c].errors = Append(@, MoveError(op.source, made.msg)),
                                        ![c].outcome = Append(@, [ok |-> FALSE, dest |-> <<>>])]
    /\ UNCHANGED <<files, logs, now, last, lost, nExec, nUndo, treeVars, scanVars, flow, agent>>

ExecutedMutantPlanned(op, uniqueDest) ==
    [source |-> op.source, destination |-> op.destination]

\* lines 76-79: the record pushed onto executedOps
Executed(op, uniqueDest) == [source |-> op.source, destination |-> uniqueDest]

\* execute, lines 74-83 of one iteration: the rename, then the push onto
\* executedOps or the catch.
ExecRename(c) ==
    /\ call[c].pc = "rename"
    /\ LET op == call[c].ops[call[c].i]
           r == Rename(files, dirs, op.source, call[c].uniqueDest)
       IN  /\ files' = r.files
           /\ dirs' = r.dirs
           /\ lost' = lost \cup {[id |-> x, by |-> "execute"] : x \in r.lost}
           /\ call' = [call EXCEPT
                         ![c].pc = "probe",
                         ![c].i = @ + 1,
                         ![c].executedOps =
                             IF r.ok THEN Append(@, Executed(op, call[c].uniqueDest)) ELSE @,
                         ![c].errors =
                             IF r.ok THEN @ ELSE Append(@, MoveError(op.source, r.msg)),
                         ![c].outcome =
                             Append(@, [ok |-> r.ok,
                                        dest |-> IF r.ok THEN call[c].uniqueDest ELSE <<>>])]
    /\ UNCHANGED <<logs, now, last, nExec, nUndo, treeVars, scanVars, flow, agent>>

\* what lines 87-97 leave in the log directory
SaveLogMutantAlways(lg, logId, executedOps) ==
    (logId :> LogEntry(logId, executedOps)) @@ lg

SaveLog(lg, logId, executedOps) ==
    IF Len(executedOps) > 0
    THEN (logId :> LogEntry(logId, executedOps)) @@ lg
    ELSE lg

\* execute, lines 87-103: the log is written when an operation succeeded,
\* and the result is returned.
ExecSave(c) ==
    /\ call[c].pc = "probe"
    /\ call[c].i > Len(call[c].ops)
    /\ logs' = SaveLog(logs, call[c].logId, call[c].executedOps)
    /\ last' = Summary("execute", call[c].ops, call[c],
                       Result(call[c].executedOps, call[c].errors), files, logs')
    /\ call' = [call EXCEPT ![c] = Idle]
    /\ UNCHANGED <<files, dirs, now, lost, nExec, nUndo, treeVars, scanVars, flow, agent>>

UndoOrderMutantForward(operations) == operations

\* line 128: log.operations.reverse()
UndoOrder(operations) == Reverse(operations)

\* undoLastBatch, lines 106-124: the newest log is chosen and read; with no
\* log the call returns at once.
BeginUndo(c) ==
    /\ call[c].pc = "idle"
    /\ nUndo < MaxUndos
    /\ nUndo' = nUndo + 1
    /\ IF {t \in DOMAIN logs : IsLogName(LogName(t))} = {}
       THEN /\ last' = Summary("undo", <<>>,
                               [Idle EXCEPT !.filesBefore = files, !.dirsBefore = dirs,
                                            !.logsBefore = logs,
                                            !.before = <<Brief(last)>>],
                               NoHistoryResult,
                               files, logs)
            /\ call' = call
       ELSE /\ last' = NoCall
            /\ call' = Started(c, [Idle EXCEPT !.pc = "revert",
                                                !.ops = UndoOrder(logs[LatestLog(logs)].operations),
                                                !.i = 1,
                                                !.logId = LatestLog(logs),
                                                !.filesBefore = files,
                                                !.dirsBefore = dirs,
                                                !.logsBefore = logs,
                                                !.before = <<Brief(last)>>])
    /\ UNCHANGED <<files, dirs, logs, now, lost, nExec, treeVars, scanVars, agent>>

\* undoLastBatch called on its own, outside the renderer's Undo
StartUndo(c) == BeginUndo(c) /\ UNCHANGED <<flow, agent>>

\* undoLastBatch, lines 128-140, one iteration: mkdir of the source's parent,
\* rename from the logged destination back to the logged source, or the catch.
UndoStep(c) ==
    /\ call[c].pc = "revert"
    /\ call[c].i <= Len(call[c].ops)
    /\ LET op == call[c].ops[call[c].i]
           made == Mkdirp(files, dirs, dirname(op.source))
           r == IF made.ok
                THEN Rename(files, made.dirs, op.destination, op.source)
                ELSE Fail(files, dirs, made.msg)
       IN  /\ files' = r.files
           /\ dirs' = r.dirs
           /\ lost' = lost \cup {[id |-> x, by |-> "undo"] : x \in r.lost}
           /\ call' = [call EXCEPT
                         ![c].i = @ + 1,
                         ![c].executedOps =
                             IF r.ok
                             THEN Append(@, [source |-> op.destination,
                                             destination |-> op.source])
                             ELSE @,
                         ![c].errors =
                             IF r.ok THEN @ ELSE Append(@, RevertError(op.destination, r.msg)),
                         ![c].outcome =
                             Append(@, [ok |-> r.ok,
                                        dest |-> IF r.ok THEN op.source ELSE <<>>])]
    /\ UNCHANGED <<logs, now, last, nExec, nUndo, treeVars, scanVars, flow, agent>>

\* what lines 142-145 leave in the log directory
UnlinkLogMutantAlways(lg, logId, errors) ==
    [t \in DOMAIN lg \ {logId} |-> lg[t]]

UnlinkLogMutantNever(lg, logId, errors) == lg

UnlinkLog(lg, logId, errors) ==
    IF Len(errors) = 0
    THEN [t \in DOMAIN lg \ {logId} |-> lg[t]]
    ELSE lg

\* undoLastBatch, lines 142-151: the log file is deleted when nothing
\* failed, and the result is returned.
UndoEnd(c) ==
    /\ call[c].pc = "revert"
    /\ call[c].i > Len(call[c].ops)
    /\ logs' = UnlinkLog(logs, call[c].logId, call[c].errors)
    /\ last' = Summary("undo", call[c].logsBefore[call[c].logId].operations, call[c],
                       Result(call[c].executedOps, call[c].errors), files, logs')
    /\ call' = [call EXCEPT ![c] = Idle]
    /\ UNCHANGED <<files, dirs, now, lost, nExec, nUndo, treeVars, scanVars, flow, agent>>

\* One caller: every call returns before the next one starts.
NextExec ==
    \/ \E ops \in OpLists : StartExecute(1, ops)
    \/ ExecProbe(1)
    \/ ExecRename(1)
    \/ ExecSave(1)
    \/ StartUndo(1)
    \/ UndoStep(1)
    \/ UndoEnd(1)

SpecExec == InitExec /\ [][NextExec]_vars

\* ------------------------------------------------- concurrent callers
\* Two renderer requests handled at once: each handler runs to its next
\* await and the handlers take turns in any order. Each batch is one move.
RaceOpLists == {<<op>> : op \in Ops}

NextRace ==
    \E c \in Callers :
        \/ \E ops \in RaceOpLists : StartExecute(c, ops)
        \/ ExecProbe(c)
        \/ ExecRename(c)
        \/ ExecSave(c)
        \/ StartUndo(c)
        \/ UndoStep(c)
        \/ UndoEnd(c)

SpecRace == InitExec /\ [][NextRace]_vars

\* ------------------------------------------- batches of three moves
\* /a.t sent to /d/a.t, /e/a.t sent below a directory named like the file
\* /a.t, and "/d/a (1).t" sent to the path of the file /e/a.t.
RetryOps ==
    { Move(<<nA>>, <<nD, nA>>),
      Move(<<nE, nA>>, <<nA, nA>>),
      Move(<<nD, nA1>>, <<nE, nA>>) }

\* the batches: each move at most once, in any order
RetryOpLists ==
    {l \in UNION {[1..n -> RetryOps] : n \in 1..Cardinality(RetryOps)} :
        \A i, j \in 1..Len(l) : i # j => l[i] # l[j]}

\* the executor on the disk that holds /a.t, /e/a.t and "/d/a (1).t"
InitRetry ==
    /\ files = (<<nA>> :> 1) @@ (<<nE, nA>> :> 2) @@ (<<nD, nA1>> :> 3)
    /\ dirs = {<<nE>>, <<nD>>}
    /\ logs = NoLogs
    /\ now = Clock0
    /\ call = [c \in Callers |-> Idle]
    /\ last = NoCall
    /\ lost = {}
    /\ nExec = 0
    /\ nUndo = 0
    /\ NoScanner
    /\ NoFlow
    /\ NoAgent
    /\ NoTree

NextRetry ==
    \/ \E ops \in RetryOpLists : StartExecute(1, ops)
    \/ ExecProbe(1)
    \/ ExecRename(1)
    \/ ExecSave(1)
    \/ StartUndo(1)
    \/ UndoStep(1)
    \/ UndoEnd(1)

SpecRetry == InitRetry /\ [][NextRetry]_vars

\* ------------------------------------------ the renderer's Apply and Undo
\* App.tsx, handleApply and handleUndo. The operations main.ts computes for
\* a root (calculateDiff of its working tree) are given per root: none, or
\* the one move of the root's file into a new directory below the root.
RootPlans ==
    << {<<>>, <<Move(<<nE, nA>>, <<nE, nD, nA>>)>>},
       {<<>>, <<Move(<<nD, nA1>>, <<nD, nE, nA1>>)>>} >>

\* the working trees of an Apply: the first root, or both roots in order
ApplyPlans ==
    {<<e>> : e \in RootPlans[1]} \cup {<<e, d>> : <<e, d>> \in RootPlans[1] \X RootPlans[2]}

\* handleApply, lines 211-221: Apply is pressed while nothing is executing
StartApply ==
    /\ flow.phase \in {"idle", "applied", "undone"}
    /\ call[1].pc = "idle"
    /\ nExec < MaxBatches
    /\ \E plan \in ApplyPlans :
          flow' = [phase |-> "applying", todo |-> plan, filesBefore |-> files,
                   filesAfter |-> NoFiles]
    /\ UNCHANGED <<execVars, treeVars, scanVars, agent>>

\* handleApply, lines 222-232, one iteration: execute-organization for the
\* next root; main.ts line 174 returns at once when the root has no
\* operation, and calls executor.execute otherwise
ApplyRoot ==
    /\ flow.phase = "applying"
    /\ flow.todo # <<>>
    /\ call[1].pc = "idle"
    /\ flow' = [flow EXCEPT !.todo = Tail(@)]
    /\ IF Head(flow.todo) = <<>>
       THEN UNCHANGED <<execVars, treeVars, scanVars, agent>>
       ELSE BeginExecute(1, Head(flow.todo))

\* handleApply, lines 234-247: every root is done, canUndo becomes true
ApplyDone ==
    /\ flow.phase = "applying"
    /\ flow.todo = <<>>
    /\ call[1].pc = "idle"
    /\ flow' = [flow EXCEPT !.phase = "applied", !.filesAfter = files]
    /\ UNCHANGED <<execVars, treeVars, scanVars, agent>>

\* handleUndo, lines 262-269: Undo is pressed (shown while canUndo holds):
\* one undoLastBatch call
HandleUndo ==
    /\ flow.phase = "applied"
    /\ call[1].pc = "idle"
    /\ flow' = [flow EXCEPT !.phase = "undoing"]
    /\ BeginUndo(1)

\* handleUndo, lines 270-283: canUndo becomes false when the undo succeeded
UndoDone ==
    /\ flow.phase = "undoing"
    /\ call[1].pc = "idle"
    /\ flow' = [flow EXCEPT !.phase = IF last.result.success THEN "undone" ELSE "applied"]
    /\ UNCHANGED <<execVars, treeVars, scanVars, agent>>

InitApply == InitRetry

NextApply ==
    \/ StartApply
    \/ ApplyRoot
    \/ ExecProbe(1)
    \/ ExecRename(1)
    \/ ExecSave(1)
    \/ ApplyDone
    \/ HandleUndo
    \/ UndoStep(1)
    \/ UndoEnd(1)
    \/ UndoDone

SpecApply == InitApply /\ [][NextApply]_vars

\* ------------------------------------------------------------ FileNode
\* src/src/common/types.ts: a node; children is read only when hasChildren
\* holds (the optional field is present).
FileNode(path, name, size, mtime) ==
    [path |-> path, name |-> name, type |-> "file", size |-> size, mtime |-> mtime,
     hasChildren |-> FALSE, children |-> <<>>]

DirNode(path, name, size, mtime, children) ==
    [path |-> path, name |-> name, type |-> "directory", size |-> size, mtime |-> mtime,
     hasChildren |-> TRUE, children |-> children]

RECURSIVE Stringify(_, _)
\* JSON.stringify of the node at address a: the tree as a value, children
\* nested in place of their addresses
Stringify(h, a) ==
    [h[a] EXCEPT !.children = [k \in 1..Len(h[a].children) |-> Stringify(h, h[a].children[k])]]

RECURSIVE Parse(_, _)
RECURSIVE ParseAll(_, _)
\* JSON.parse of the elements of an array: fresh objects, [h, out]
ParseAll(h, vs) ==
    IF vs = <<>> THEN [h |-> h, out |-> <<>>]
    ELSE LET first == Parse(h, Head(vs))
             rest == ParseAll(first.h, Tail(vs))
         IN  [h |-> rest.h, out |-> <<first.a>> \o rest.out]

\* JSON.parse of a node: a fresh object for it and for each descendant, [h, a]
Parse(h, v) ==
    LET kids == ParseAll(h, v.children)
    IN  [h |-> Append(kids.h, [v EXCEPT !.children = kids.out]), a |-> Len(kids.h) + 1]

CloneTreeMutantAlias(h, a) == [h |-> h, a |-> a]

\* cloneTree / cloneNode: JSON.parse(JSON.stringify(value))
cloneTree(h, a) == Parse(h, Stringify(h, a))

RECURSIVE CloneAll(_, _)
\* the clones of a list of nodes, made one after the other: [h, out]
CloneAll(h, as) ==
    IF as = <<>> THEN [h |-> h, out |-> <<>>]
    ELSE LET first == cloneTree(h, Head(as))
             rest == CloneAll(first.h, Tail(as))
         IN  [h |-> rest.h, out |-> <<first.a>> \o rest.out]

RECURSIVE flattenFiles(_, _)
RECURSIVE FlatMapFiles(_, _)
\* node.children.flatMap(child => flattenFiles(child))
FlatMapFiles(h, as) ==
    IF as = <<>> THEN <<>> ELSE flattenFiles(h, Head(as)) \o FlatMapFiles(h, Tail(as))

FlattenFilesMutantFirstChild(h, a) ==
    IF h[a].type = "file" THEN <<a>>
    ELSE IF h[a].hasChildren /\ h[a].children # <<>> THEN flattenFiles(h, Head(h[a].children))
    ELSE <<>>

\* flattenFiles: the file nodes below a node, as references, in tree order
flattenFiles(h, a) ==
    IF h[a].type = "file" THEN <<a>>
    ELSE IF h[a].hasChildren THEN FlatMapFiles(h, h[a].children)
    ELSE <<>>

RECURSIVE SumSizes(_, _)
\* children.reduce((acc, c) => acc + c.size, 0)
SumSizes(h, as) == IF as = <<>> THEN 0 ELSE h[Head(as)].size + SumSizes(h, Tail(as))

\* `virtual://${name}-${suffix}`
VirtualPath(name, suffix) == <<<<"virtual:">>, <<>>, name \o <<"-">> \o suffix>>

\* createDirectory(name, children), with the random suffix r, at time t:
\* [h, a]. The mtime of a created directory is the clock's reading; that of
\* a scanned node is counted in months (see TimeStrategy). Nothing reads
\* the mtime of a directory.
createDirectory(h, name, children, r, t) ==
    [h |-> Append(h, DirNode(VirtualPath(name, r), name,
                             SumSizes(h, children), t, children)),
     a |-> Len(h) + 1]

\* { ...cloneTree(root), children: newChildren }: a fresh object with the
\* root's own fields and the new children. (The clones of the root's old
\* descendants are referenced by nothing and are left out.)
NewRoot(h, root, newChildren) ==
    [h |-> Append(h, [Stringify(h, root) EXCEPT !.hasChildren = TRUE,
                                                 !.children = newChildren]),
     a |-> Len(h) + 1]

RECURSIVE AtIndices(_, _)
\* the elements of s at the indices I, in order
AtIndices(s, I) ==
    IF I = {} THEN <<>>
    ELSE LET m == CHOOSE x \in I : \A y \in I : x <= y
         IN  <<s[m]>> \o AtIndices(s, I \ {m})

RECURSIVE SortAsc(_)
\* Array.prototype.sort of distinct strings, by code units. (The scan sorts
\* with localeCompare; on the names of the scanned folders below, which
\* differ in their first letter, the two orders agree.)
SortAsc(S) ==
    IF S = {} THEN <<>>
    ELSE LET m == CHOOSE x \in S : \A y \in S : y = x \/ StrLess(x, y)
         IN  <<m>> \o SortAsc(S \ {m})

\* --------------------------------------------------------- TimeStrategy
\* The modification time is counted in months since January 1970, the
\* granularity the strategy reads it at.
\* date.getFullYear().toString()
YearOf(node) == ToDigits(1970 + (node.mtime \div 12))

MonthOfMutantNoPad(node) == ToDigits((node.mtime % 12) + 1)

\* (date.getMonth() + 1).toString().padStart(2, '0')
MonthOf(node) ==
    LET m == ToDigits((node.mtime % 12) + 1)
    IN  IF Len(m) < 2 THEN <<"0">> \o m ELSE m

RECURSIVE TimeMonths(_, _, _, _, _, _, _)
\* lines 30-34: the month directories of one year, newest first
TimeMonths(acc, months, year, fs, clones, rs, t) ==
    IF months = <<>> THEN acc
    ELSE LET members == {i \in 1..Len(fs) :
                            /\ YearOf(acc.h[fs[i]]) = year
                            /\ MonthOf(acc.h[fs[i]]) = Head(months)}
             made == createDirectory(acc.h, Head(months), AtIndices(clones, members),
                                     rs[acc.k + 1], t)
         IN  TimeMonths([h |-> made.h, out |-> Append(acc.out, made.a), k |-> acc.k + 1],
                        Tail(months), year, fs, clones, rs, t)

RECURSIVE TimeYears(_, _, _, _, _, _)
\* lines 27-37: the year directories, newest first
TimeYears(acc, years, fs, clones, rs, t) ==
    IF years = <<>> THEN acc
    ELSE LET year == Head(years)
             months == {MonthOf(acc.h[fs[i]]) :
                           i \in {j \in 1..Len(fs) : YearOf(acc.h[fs[j]]) = year}}
             ms == TimeMonths([h |-> acc.h, out |-> <<>>, k |-> acc.k],
                              Reverse(SortAsc(months)), year, fs, clones, rs, t)
             made == createDirectory(ms.h, year, ms.out, rs[ms.k + 1], t)
         IN  TimeYears([h |-> made.h, out |-> Append(acc.out, made.a), k |-> ms.k + 1],
                       Tail(years), fs, clones, rs, t)

\* TimeStrategy.apply(root), with the random draws rs, at time t
TimeApply(h, root, rs, t) ==
    LET fs == flattenFiles(h, root)
        cl == CloneAll(h, fs)
        years == {YearOf(h[fs[i]]) : i \in 1..Len(fs)}
        built == TimeYears([h |-> cl.h, out |-> <<>>, k |-> 0],
                           Reverse(SortAsc(years)), fs, cl.out, rs, t)
        made == NewRoot(built.h, root, built.out)
    IN  [ok |-> TRUE, error |-> "", h |-> made.h, a |-> made.a]

\* --------------------------------------------------------- TypeStrategy
\* TYPE_MAPPING, in the order of Object.entries
TYPE_MAPPING ==
    << [category |-> <<"I", "m", "a", "g", "e", "s">>,
        exts |-> {<<".", "j", "p", "g">>, <<".", "j", "p", "e", "g">>, <<".", "p", "n", "g">>, <<".", "g", "i", "f">>, <<".", "b", "m", "p">>, <<".", "w", "e", "b", "p">>, <<".", "s", "v", "g">>}],
       [category |-> <<"D", "o", "c", "u", "m", "e", "n", "t", "s">>,
        exts |-> {<<".", "p", "d", "f">>, <<".", "d", "o", "c">>, <<".", "d", "o", "c", "x">>, <<".", "t", "x", "t">>, <<".", "m", "d">>, <<".", "x", "l", "s">>, <<".", "x", "l", "s", "x">>, <<".", "p", "p", "t">>, <<".", "p", "p", "t", "x">>}],
       [category |-> <<"A", "u", "d", "i", "o">>,
        exts |-> {<<".", "m", "p", "3">>, <<".", "w", "a", "v">>, <<".", "o", "g", "g">>, <<".", "m", "4", "a">>, <<".", "f", "l", "a", "c">>}],
       [category |-> <<"V", "i", "d", "e", "o">>,
        exts |-> {<<".", "m", "p", "4">>, <<".", "m", "k", "v">>, <<".", "m", "o", "v">>, <<".", "a", "v", "i">>, <<".", "w", "e", "b", "m">>}],
       [category |-> <<"C", "o", "d", "e">>,
        exts |-> {<<".", "j", "s">>, <<".", "t", "s">>, <<".", "j", "s", "x">>, <<".", "t", "s", "x">>, <<".", "h", "t", "m", "l">>, <<".", "c", "s", "s">>, <<".", "j", "s", "o", "n">>, <<".", "p", "y">>, <<".", "j", "a", "v", "a">>, <<".", "c">>, <<".", "c", "p", "p">>, <<".", "g", "o">>, <<".", "r", "s">>}],
       [category |-> <<"A", "r", "c", "h", "i", "v", "e", "s">>,
        exts |-> {<<".", "z", "i", "p">>, <<".", "r", "a", "r">>, <<".", "7", "z">>, <<".", "t", "a", "r">>, <<".", "g", "z">>}] >>

nOthers == <<"O", "t", "h", "e", "r", "s">>

\* String.prototype.toLowerCase, one character
LowerChar(c) ==
    LET upper == <<"A", "B", "C", "D", "E", "F", "G", "H", "I", "J", "K", "L", "M",
                   "N", "O", "P", "Q", "R", "S", "T", "U", "V", "W", "X", "Y", "Z">>
        lower == <<"a", "b", "c", "d", "e", "f", "g", "h", "i", "j", "k", "l", "m",
                   "n", "o", "p", "q", "r", "s", "t", "u", "v", "w", "x", "y", "z">>
    IN  IF \E k \in 1..26 : upper[k] = c
        THEN lower[CHOOSE k \in 1..26 : upper[k] = c]
        ELSE c

toLowerCase(str) == [k \in 1..Len(str) |-> LowerChar(str[k])]

\* getCategory(filename)
getCategory(filename) ==
    LET ext == toLowerCase(extname(filename))
        hits == {k \in 1..Len(TYPE_MAPPING) : ext \in TYPE_MAPPING[k].exts}
    IN  IF hits = {} THEN nOthers
        ELSE TYPE_MAPPING[CHOOSE k \in hits : \A j \in hits : k <= j].category

\* line 41: the fixed order of the category directories
TypeOrder ==
    << <<"I", "m", "a", "g", "e", "s">>,
       <<"D", "o", "c", "u", "m", "e", "n", "t", "s">>,
       <<"V", "i", "d", "e", "o">>,
       <<"A", "u", "d", "i", "o">>,
       <<"C", "o", "d", "e">>,
       <<"A", "r", "c", "h", "i", "v", "e", "s">>,
       nOthers >>

RECURSIVE TypeDirs(_, _, _, _, _, _)
\* lines 54-56: one directory per category that has fs
TypeDirs(acc, categories, fs, clones, rs, t) ==
    IF categories = <<>> THEN acc
    ELSE LET members == {i \in 1..Len(fs) :
                            getCategory(acc.h[fs[i]].name) = Head(categories)}
             made == createDirectory(acc.h, Head(categories), AtIndices(clones, members),
                                     rs[acc.k + 1], t)
         IN  TypeDirs([h |-> made.h, out |-> Append(acc.out, made.a), k |-> acc.k + 1],
                      Tail(categories), fs, clones, rs, t)

\* TypeStrategy.apply(root). Every category getCategory returns is in the
\* order list, so the sort of lines 45-52 orders by the index in it.
TypeApply(h, root, rs, t) ==
    LET fs == flattenFiles(h, root)
        cl == CloneAll(h, fs)
        existing == {getCategory(h[fs[i]].name) : i \in 1..Len(fs)}
        sorted == AtIndices(TypeOrder, {k \in 1..Len(TypeOrder) : TypeOrder[k] \in existing})
        built == TypeDirs([h |-> cl.h, out |-> <<>>, k |-> 0], sorted, fs, cl.out, rs, t)
        made == NewRoot(built.h, root, built.out)
    IN  [ok |-> TRUE, error |-> "", h |-> made.h, a |-> made.a]

\* -------------------------------------------------------- TopicStrategy
nUncategorized == <<"U", "n", "c", "a", "t", "e", "g", "o", "r", "i", "z", "e", "d">>

\* fileMap.get(name), fileMap = new Map(files.map(f => [f.name, f])): of
\* the files with one name the map keeps the last; 0 is undefined
FileMapGet(h, fs, name) ==
    LET hits == {i \in 1..Len(fs) : h[fs[i]].name = name}
    IN  IF hits = {} THEN 0 ELSE fs[Max(hits)]

RECURSIVE TopicNames(_, _, _)
\* lines 63-69: the clones of the files one topic names
TopicNames(acc, names, fs) ==
    IF names = <<>> THEN acc
    ELSE LET node == FileMapGet(acc.h, fs, Head(names))
         IN  IF node = 0 THEN TopicNames(acc, Tail(names), fs)
             ELSE LET made == cloneTree(acc.h, node)
                  IN  TopicNames([h |-> made.h, out |-> Append(acc.out, made.a),
                                  handled |-> acc.handled \union {Head(names)}],
                                 Tail(names), fs)

RECURSIVE TopicEntries(_, _, _, _, _)
\* lines 61-73: one directory per topic of the reply that names a known file
TopicEntries(acc, entries, fs, rs, t) ==
    IF entries = <<>> THEN acc
    ELSE LET nodes == TopicNames([h |-> acc.h, out |-> <<>>, handled |-> acc.handled],
                                 Head(entries).names, fs)
         IN  IF nodes.out = <<>>
             THEN TopicEntries([acc EXCEPT !.h = nodes.h, !.handled = nodes.handled],
                               Tail(entries), fs, rs, t)
             ELSE LET made == createDirectory(nodes.h, Head(entries).topic, nodes.out,
                                              rs[acc.k + 1], t)
                  IN  TopicEntries([h |-> made.h, out |-> Append(acc.out, made.a),
                                    k |-> acc.k + 1, handled |-> nodes.handled],
                                   Tail(entries), fs, rs, t)

\* TopicStrategy.apply(root), given what the language model did
TopicApply(h, root, reply, rs, t) ==
    IF reply.kind = "noClient"
    THEN [ok |-> FALSE, h |-> h, a |-> 0,
          error |-> "AI organization requires KIMI_API_KEY or OPENAI_API_KEY environment variables."]
    ELSE IF reply.kind = "noContent"
    THEN [ok |-> FALSE, h |-> h, a |-> 0, error |-> "No response from AI"]
    ELSE IF reply.kind = "badJSON"
    THEN [ok |-> FALSE, h |-> h, a |-> 0, error |-> "AI response was not valid JSON."]
    ELSE LET fs == flattenFiles(h, root)
             topics == TopicEntries([h |-> h, out |-> <<>>, k |-> 0, handled |-> {}],
                                    reply.entries, fs, rs, t)
             leftovers == {i \in 1..Len(fs) : h[fs[i]].name \notin topics.handled}
             cl == CloneAll(topics.h, AtIndices(fs, leftovers))
             rest == createDirectory(cl.h, nUncategorized, cl.out, rs[topics.k + 1], t)
             built == IF leftovers = {} THEN [h |-> topics.h, out |-> topics.out]
                      ELSE [h |-> rest.h, out |-> Append(topics.out, rest.a)]
             made == NewRoot(built.h, root, built.out)
         IN  [ok |-> TRUE, error |-> "", h |-> made.h, a |-> made.a]

\* ----------------------------------------------------------- calculateDiff
RECURSIVE traverse(_, _, _)
RECURSIVE TraverseAll(_, _, _)
\* for (const child of children) traverse(child, currentPath)
TraverseAll(h, as, currentPath) ==
    IF as = <<>> THEN <<>>
    ELSE traverse(h, Head(as), currentPath) \o TraverseAll(h, Tail(as), currentPath)

TraverseMutantSyntheticPath(h, a, currentPath) ==
    IF h[a].type = "file"
    THEN LET destination == join(currentPath, h[a].name)
         IN  IF resolve(h[a].path) # resolve(destination)
             THEN <<Move(h[a].path, destination)>>
             ELSE <<>>
    ELSE IF h[a].hasChildren
    THEN TraverseAll(h, h[a].children, h[a].path)
    ELSE <<>>

\* traverse(node, currentPath), lines 13-33: the operations it pushes
traverse(h, a, currentPath) ==
    IF h[a].type = "file"
    THEN LET destination == join(currentPath, h[a].name)
         IN  IF resolve(h[a].path) # resolve(destination)
             THEN <<Move(h[a].path, destination)>>
             ELSE <<>>
    ELSE IF h[a].hasChildren
    THEN TraverseAll(h, h[a].children, join(currentPath, h[a].name))
    ELSE <<>>

CalculateDiffMutantRootName(h, rootPath, root) ==
    IF h[root].hasChildren
    THEN TraverseAll(h, h[root].children, join(rootPath, h[root].name))
    ELSE <<>>

\* calculateDiff(rootPath, workingTreeRoot)
calculateDiff(h, rootPath, root) ==
    IF h[root].hasChildren
    THEN TraverseAll(h, h[root].children, rootPath)
    ELSE <<>>

\* ------------------------------------------------------ scanned folders
\* values of Math.random().toString(36).substr(2, 9)
RandomSuffixes == {<<"4", "f", "z">>, <<"k", "0", "q">>}

nR == <<"r">>
nS == <<"s">>
nCode == <<"C", "o", "d", "e">>
nAmd == <<"a", ".", "m", "d">>
nBpy == <<"b", ".", "p", "y">>
nT == <<"T">>
nU == <<"U">>
nZ == <<"z">>

\* months since January 1970 of the modification times in the snapshots
May2023 == 640
May2024 == 652
Nov2024 == 658

\* The files a scanned folder /r may hold: /r/a.md, /r/s/a.md (the same
\* name in another directory) and /r/Code/b.py (already where the Type
\* strategy puts it).
Slots ==
    { [dir |-> <<>>, name |-> nAmd, size |-> 1, mtime |-> May2023],
      [dir |-> nS, name |-> nAmd, size |-> 2, mtime |-> Nov2024],
      [dir |-> nCode, name |-> nBpy, size |-> 4, mtime |-> May2024] }

\* the file nodes of one directory of the scan, sorted by name
ScannedFiles(S, dirPath, dir) ==
    LET names == {x.name : x \in {y \in S : y.dir = dir}}
        sorted == SortAsc(names)
    IN  [k \in 1..Len(sorted) |->
            LET x == CHOOSE y \in S : y.dir = dir /\ y.name = sorted[k]
            IN  FileNode(Append(dirPath, x.name), x.name, x.size, x.mtime)]

RECURSIVE SumValues(_)
SumValues(vs) == IF vs = <<>> THEN 0 ELSE Head(vs).size + SumValues(Tail(vs))

\* scanDirectory's result for the folder /r holding the files S:
\* directories first, then files, each sorted by name
Scan(S) ==
    LET subdirs == SortAsc({x.dir : x \in {y \in S : y.dir # <<>>}})
        dirNodes == [k \in 1..Len(subdirs) |->
                        LET kids == ScannedFiles(S, <<nR, subdirs[k]>>, subdirs[k])
                        IN  DirNode(<<nR, subdirs[k]>>, subdirs[k], SumValues(kids),
                                    Nov2024, kids)]
        kids == dirNodes \o ScannedFiles(S, <<nR>>, <<>>)
    IN  DirNode(<<nR>>, nR, SumValues(kids), Nov2024, kids)

\* what the language model may do for one request
Replies ==
    { [kind |-> "noClient", entries |-> <<>>],
      [kind |-> "noContent", entries |-> <<>>],
      [kind |-> "badJSON", entries |-> <<>>],
      [kind |-> "mapping", entries |-> <<>>],
      [kind |-> "mapping", entries |-> << [topic |-> nT, names |-> <<nAmd>>] >>],
      [kind |-> "mapping", entries |-> << [topic |-> nT, names |-> <<nAmd, nZ>>],
                                          [topic |-> nU, names |-> <<nBpy, nAmd>>] >>] }

\* a folder was scanned; nothing was moved yet
InitTree ==
    /\ \E S \in SUBSET Slots :
          /\ scanned = Scan(S)
          /\ heap = Parse(<<>>, Scan(S)).h
          /\ snapshot = Parse(<<>>, Scan(S)).a
    /\ working = 0
    /\ applied = NoPreview
    /\ diffed = NoDiff
    /\ lastMove = NoMove
    /\ history = <<>>
    /\ nMoves = 0
    /\ files = NoFiles
    /\ dirs = {}
    /\ logs = NoLogs
    /\ now = Clock0
    /\ call = [c \in Callers |-> Idle]
    /\ last = NoCall
    /\ lost = {}
    /\ nExec = 0
    /\ nUndo = 0
    /\ NoScanner
    /\ NoFlow
    /\ NoAgent

\* the directories an apply call creates, each with one random draw
Created(strategyId, h, root, reply) ==
    LET fs == flattenFiles(h, root)
    IN  IF strategyId = "time"
        THEN Cardinality({YearOf(h[fs[i]]) : i \in 1..Len(fs)})
             + Cardinality({<<YearOf(h[fs[i]]), MonthOf(h[fs[i]])>> : i \in 1..Len(fs)})
        ELSE IF strategyId = "type"
        THEN Cardinality({getCategory(h[fs[i]].name) : i \in 1..Len(fs)})
        ELSE IF strategyId = "topic" /\ reply.kind = "mapping"
        THEN Len(reply.entries) + 1
        ELSE 0

\* getStrategy(strategyId).apply(root)
Apply(strategyId, h, root, reply, rs, t) ==
    IF strategyId = "time" THEN TimeApply(h, root, rs, t)
    ELSE IF strategyId = "type" THEN TypeApply(h, root, rs, t)
    ELSE IF strategyId = "topic" THEN TopicApply(h, root, reply, rs, t)
    ELSE [ok |-> FALSE, h |-> h, a |-> 0, error |-> "Strategy not found"]

\* handlePreview with the strategy selected: apply on the snapshot root; the
\* result becomes the working tree, a failure leaves the working tree as it
\* was. The objects of a replaced working tree are unreachable and dropped,
\* and the record of the last calculateDiff call, made on the trees as they
\* were, is cleared, as are the record of the last moveFileInTree call and,
\* with the replaced tree, the trees held from before.
PreviewOrganization(strategyId, reply) ==
    /\ snapshot # 0
    /\ \E h0 \in {SubSeq(heap, 1, snapshot)} :
       \E rs \in [1..Created(strategyId, h0, snapshot, reply) -> RandomSuffixes] :
       \E res \in {Apply(strategyId, h0, snapshot, reply, rs, now)} :
          /\ applied' = [strategy |-> strategyId, reply |-> reply, ok |-> res.ok,
                         error |-> res.error, root |-> snapshot, result |-> res.a]
          /\ heap' = IF res.ok THEN res.h ELSE heap
          /\ working' = IF res.ok THEN res.a ELSE working
          /\ history' = IF res.ok THEN <<>> ELSE history
    /\ diffed' = NoDiff
    /\ lastMove' = NoMove
    /\ UNCHANGED <<snapshot, scanned, nMoves, execVars, scanVars, flow, agent>>

PreviewTime == PreviewOrganization("time", NoReply)

PreviewType == PreviewOrganization("type", NoReply)

PreviewTopic == \E reply \in Replies : PreviewOrganization("topic", reply)

PreviewOther == PreviewOrganization("other", NoReply)

\* the root paths calculateDiff is called with: the scanned root's, as
\* handleApply passes it, and another directory
RootPaths == {<<nR>>, <<nR, nS>>}

\* calculateDiff(rootPath, root) on the snapshot and its own root path
DiffSnapshot ==
    /\ snapshot # 0
    /\ diffed' = [of |-> "snapshot", rootPath |-> heap[snapshot].path, root |-> snapshot,
                  ops |-> calculateDiff(heap, heap[snapshot].path, snapshot)]
    /\ UNCHANGED <<heap, snapshot, scanned, working, applied, lastMove, history, nMoves, execVars, scanVars, flow, agent>>

\* calculateDiff(rootPath, root) on the working tree
DiffWorking ==
    /\ working > 0
    /\ \E rootPath \in RootPaths :
          diffed' = [of |-> "working", rootPath |-> rootPath, root |-> working,
                     ops |-> calculateDiff(heap, rootPath, working)]
    /\ UNCHANGED <<heap, snapshot, scanned, working, applied, lastMove, history, nMoves, execVars, scanVars, flow, agent>>

NextTree ==
    \/ PreviewTime
    \/ PreviewType
    \/ PreviewTopic
    \/ PreviewOther
    \/ DiffSnapshot
    \/ DiffWorking

SpecTree == InitTree /\ [][NextTree]_vars

\* ------------------------------------------------------------- Scanner
\* src/src/llm/client.ts, scanNode and scanDirectory. The scanner reads a
\* folder of its own: what fs.stat and fs.readdir answer for each path.
\*   "absent"     no such entry (stat throws)
\*   "nostat"     an entry that readdir lists and whose stat throws
\*   "file"       a regular file
\*   "directory"  a directory that can be listed
\*   "nolist"     a directory whose readdir throws
\*   "other"      stat succeeds, neither file nor directory
ScanPaths ==
    { <<nR>>, <<nR, nAmd>>, <<nR, nBpy>>, <<nR, nS>>, <<nR, nS, nAmd>>,
      <<nR, nS, nCode>>, <<nR, nS, nCode, nBpy>> }

\* what each path can be
StatusAt(path) ==
    CASE path = <<nR>> -> {"nostat", "file", "directory", "nolist", "other"}
      [] path = <<nR, nAmd>> -> {"absent", "nostat", "file"}
      [] path = <<nR, nBpy>> -> {"absent", "file", "other"}
      [] path = <<nR, nS>> -> {"absent", "nostat", "directory", "nolist", "other"}
      [] path = <<nR, nS, nAmd>> -> {"absent", "nostat", "file"}
      [] path = <<nR, nS, nCode>> -> {"absent", "directory", "nolist"}
      [] path = <<nR, nS, nCode, nBpy>> -> {"absent", "file", "other"}

\* stats.size of the regular file at a path
StatSize(path) ==
    CASE path = <<nR>> -> 16
      [] path = <<nR, nAmd>> -> 1
      [] path = <<nR, nBpy>> -> 8
      [] path = <<nR, nS, nAmd>> -> 2
      [] path = <<nR, nS, nCode, nBpy>> -> 4
      [] OTHER -> 32

\* stats.mtimeMs, in months
StatMtime(path) ==
    CASE path = <<nR, nAmd>> -> May2023
      [] path = <<nR, nS, nCode, nBpy>> -> May2024
      [] OTHER -> Nov2024

\* the names a directory can hold, in the order readdir gives them
Listing(path) ==
    CASE path = <<nR>> -> <<nAmd, nBpy, nS>>
      [] path = <<nR, nS>> -> <<nAmd, nCode>>
      [] path = <<nR, nS, nCode>> -> <<nBpy>>
      [] OTHER -> <<>>

\* fs.readdir(currentPath) of a listable directory
readdir(e, currentPath) ==
    SelectSeq(Listing(currentPath), LAMBDA name : e[Append(currentPath, name)] # "absent")

\* scanNode returned null
ScanNull == [isNull |-> TRUE]

RECURSIVE SumCounts(_)
SumCounts(results) ==
    IF results = <<>> THEN 0 ELSE Head(results).count + SumCounts(Tail(results))

RECURSIVE SumResultSizes(_)
SumResultSizes(results) ==
    IF results = <<>> THEN 0 ELSE Head(results).size + SumResultSizes(Tail(results))

\* children.sort: directories first, then files, each by name
SortChildren(children) ==
    LET ofType(t) == {children[k] : k \in {j \in 1..Len(children) : children[j].type = t}}
        byName(S) == LET names == SortAsc({x.name : x \in S})
                     IN  [k \in 1..Len(names) |-> CHOOSE x \in S : x.name = names[k]]
    IN  byName(ofType("directory")) \o byName(ofType("file"))

DirectoryResultMutantCountsSelf(currentPath, results) ==
    LET kept == SelectSeq(results, LAMBDA r : r # ScanNull)
        children == SortChildren([k \in 1..Len(kept) |-> kept[k].node])
    IN  [isNull |-> FALSE,
         node |-> DirNode(currentPath, Last(currentPath), SumResultSizes(kept),
                          StatMtime(currentPath), children),
         count |-> 1 + SumCounts(kept),
         size |-> SumResultSizes(kept)]

\* scanNode on a listed directory: the results that are not null become the
\* children, their counts and sizes are added up
DirectoryResult(currentPath, results) ==
    LET kept == SelectSeq(results, LAMBDA r : r # ScanNull)
        children == SortChildren([k \in 1..Len(kept) |-> kept[k].node])
    IN  [isNull |-> FALSE,
         node |-> DirNode(currentPath, Last(currentPath), SumResultSizes(kept),
                          StatMtime(currentPath), children),
         count |-> SumCounts(kept),
         size |-> SumResultSizes(kept)]

RECURSIVE ScanNodeMutantAbort(_, _)
ScanNodeMutantAbort(e, currentPath) ==
    LET stats == e[currentPath]
    IN  IF stats \in {"absent", "nostat"} THEN ScanNull
        ELSE IF stats = "file"
        THEN [isNull |-> FALSE,
              node |-> FileNode(currentPath, Last(currentPath), StatSize(currentPath),
                                StatMtime(currentPath)),
              count |-> 1,
              size |-> StatSize(currentPath)]
        ELSE IF stats = "nolist" THEN ScanNull
        ELSE IF stats = "directory"
        THEN LET dirEntries == readdir(e, currentPath)
                 results == [k \in 1..Len(dirEntries) |->
                                ScanNodeMutantAbort(e, Append(currentPath, dirEntries[k]))]
             IN  IF \E k \in 1..Len(results) : results[k] = ScanNull
                 THEN ScanNull
                 ELSE DirectoryResult(currentPath, results)
        ELSE ScanNull

RECURSIVE scanNode(_, _)
\* scanNode(currentPath): [node, count, size] or null
scanNode(e, currentPath) ==
    LET stats == e[currentPath]
    IN  IF stats \in {"absent", "nostat"} THEN ScanNull
        ELSE IF stats = "file"
        THEN [isNull |-> FALSE,
              node |-> FileNode(currentPath, Last(currentPath), StatSize(currentPath),
                                StatMtime(currentPath)),
              count |-> 1,
              size |-> StatSize(currentPath)]
        ELSE IF stats = "nolist" THEN ScanNull
        ELSE IF stats = "directory"
        THEN LET dirEntries == readdir(e, currentPath)
                 results == [k \in 1..Len(dirEntries) |->
                                scanNode(e, Append(currentPath, dirEntries[k]))]
             IN  DirectoryResult(currentPath, results)
        ELSE ScanNull

\* scanDirectory(dirPath): throws when scanNode returned null
scanDirectory(e, dirPath) ==
    LET result == scanNode(e, dirPath)
    IN  IF result = ScanNull
        THEN [NoScan EXCEPT !.called = TRUE, !.dirPath = dirPath,
                            !.error = "Failed to scan directory"]
        ELSE [called |-> TRUE, dirPath |-> dirPath, ok |-> TRUE, error |-> "",
              root |-> result.node, fileCount |-> result.count, totalSize |-> result.size]

\* the folders handed to scanDirectory
ScanRoots == {<<nR>>, <<nR, nS>>}

InitScan ==
    /\ folder \in {e \in [ScanPaths -> {"absent", "nostat", "file", "directory", "nolist", "other"}] :
                        \A path \in ScanPaths : e[path] \in StatusAt(path)}
    /\ scan = NoScan
    /\ NoFlow
    /\ NoAgent
    /\ NoTree
    /\ files = NoFiles
    /\ dirs = {}
    /\ logs = NoLogs
    /\ now = Clock0
    /\ call = [c \in Callers |-> Idle]
    /\ last = NoCall
    /\ lost = {}
    /\ nExec = 0
    /\ nUndo = 0

ScanDirectory ==
    /\ \E dirPath \in ScanRoots : scan' = scanDirectory(folder, dirPath)
    /\ UNCHANGED <<folder, execVars, treeVars, flow, agent>>

NextScan == ScanDirectory

SpecScan == InitScan /\ [][NextScan]_vars

\* ------------------------------------------------- claims on the executor
\* The disk after the moves of a list took effect, one after the other: what
\* lies at or below source lies at or below destination afterwards.
Relocate(fl, src, dst) ==
    LET under == {q \in DOMAIN fl : IsPrefix(src, q)}
        keep == DOMAIN fl \ under
        moved == {Rebase(src, dst, q) : q \in under}
    IN  IF src = dst THEN fl
        ELSE [q \in keep \cup moved |->
                 IF q \in moved THEN fl[CHOOSE o \in under : Rebase(src, dst, o) = q]
                 ELSE fl[q]]

RECURSIVE ApplyMoves(_, _)
ApplyMoves(fl, moves) ==
    IF moves = <<>> THEN fl
    ELSE ApplyMoves(Relocate(fl, Head(moves).source, Head(moves).destination), Tail(moves))

Returned(kind) == last.kind = kind /\ call[1].pc = "idle"

Before == last.prev[1]

AllSucceeded(s) ==
    s.kind = "execute" /\ s.nOps >= 1 /\ s.processed = s.nOps /\ s.success

\* C1: an undo that immediately follows an execute whose N >= 1 operations
\* all succeeded returns success with processed = N and no error, puts every
\* file back where it was before the execute, and deletes the batch's log.
C1_UndoRestoresBatch ==
    (Returned("undo") /\ AllSucceeded(Before)) =>
        /\ last.result = [success |-> TRUE, processed |-> Before.nOps, errors |-> <<>>]
        /\ last.filesAfter = Before.filesBefore
        /\ Before.logId \notin DOMAIN last.logsAfter

\* the case of C1 in which it does hold
C1_RoundTripReached ==
    /\ Returned("undo") /\ AllSucceeded(Before)
    /\ Before.nOps = 2
    /\ last.result.success
    /\ last.filesAfter = Before.filesBefore
    /\ last.filesAfter # last.filesBefore

Indices(s, D) == {i \in 1..Len(s.ops) : s.ops[i].destination = D}

\* the k-th smallest element of a finite set of numbers
RECURSIVE Nth(_, _)
Nth(S, k) ==
    LET m == CHOOSE x \in S : \A y \in S : x <= y
    IN  IF k = 1 THEN m ELSE Nth(S \ {m}, k - 1)

\* D for k = 1, "D (k-1)" after it
Candidate(D, k) ==
    IF k = 1 THEN D
    ELSE join(dirname(D), Suffixed(basename(Last(D), extname(Last(D))), k - 1,
                                   extname(Last(D))))

\* the operations of s planned for D ended at D, "D (1)", ..., in order
EndAtSuffixes(s, D) ==
    \A k \in 1..Cardinality(Indices(s, D)) :
        s.outcome[Nth(Indices(s, D), k)].dest = Candidate(D, k)

SharersSucceeded(s, D) == \A i \in Indices(s, D) : s.outcome[i].ok

NoClobberByExecute == \A l \in lost : l.by # "execute"

\* the name chosen for D is free, and is D or the first free "D (n)"
FirstFree(fl, ds, D, U) ==
    /\ ~Exists(fl, ds, U)
    /\ \/ U = D
       \/ /\ Exists(fl, ds, D)
          /\ \E n \in 1..(Cardinality(DOMAIN fl \cup ds) + 1) :
                /\ U = Candidate(D, n + 1)
                /\ \A m \in 1..(n - 1) : Exists(fl, ds, Candidate(D, m + 1))

SuffixesUntouched(s, D) ==
    \A k \in 1..Cardinality(Indices(s, D)) :
        /\ ~Exists(s.filesBefore, s.dirsBefore, Candidate(D, k))
        /\ \A i \in 1..Len(s.ops) :
              /\ ~IsPrefix(Candidate(D, k), s.ops[i].source)
              /\ i \notin Indices(s, D) => ~IsPrefix(Candidate(D, k), s.ops[i].destination)

RECURSIVE Succeeded(_, _)
\* the operations of ops that succeeded, in order, each with its source and
\* the destination its file went to
Succeeded(ops, outcome) ==
    IF ops = <<>> THEN <<>>
    ELSE IF Head(outcome).ok
         THEN <<[source |-> Head(ops).source, destination |-> Head(outcome).dest]>>
                  \o Succeeded(Tail(ops), Tail(outcome))
         ELSE Succeeded(Tail(ops), Tail(outcome))

RECURSIVE FailedSources(_, _)
\* the sources of the operations of ops that failed, in order
FailedSources(ops, outcome) ==
    IF ops = <<>> THEN <<>>
    ELSE IF Head(outcome).ok
         THEN FailedSources(Tail(ops), Tail(outcome))
         ELSE <<Head(ops).source>> \o FailedSources(Tail(ops), Tail(outcome))

\* C3: every operation handed to execute is counted as processed or reported
\* by one error naming its source, processed + |errors| = |operations|,
\* success holds iff there is no error, and the disk after the call is the
\* disk before it with the successful moves applied: a failure moves nothing,
\* stops nothing after it and undoes nothing before it.
C3_NoMoveLost ==
    Returned("execute") =>
        /\ Len(last.outcome) = Len(last.ops)
        /\ last.result.processed + Len(last.result.errors) = Len(last.ops)
        /\ last.result.processed = Len(Succeeded(last.ops, last.outcome))
        /\ Len(last.result.errors) = Len(FailedSources(last.ops, last.outcome))
        /\ \A k \in 1..Len(last.result.errors) :
              /\ last.result.errors[k].text = "Failed to move"
              /\ last.result.errors[k].path = FailedSources(last.ops, last.outcome)[k]
        /\ last.result.success <=> (last.result.errors = <<>>)
        /\ last.filesAfter = ApplyMoves(last.filesBefore, Succeeded(last.ops, last.outcome))

\* a batch whose first operation failed and whose second succeeded
C3_FailureThenSuccess ==
    /\ Returned("execute")
    /\ Len(last.ops) = 2
    /\ ~last.outcome[1].ok
    /\ last.outcome[2].ok
    /\ last.filesAfter # last.filesBefore
    /\ ~last.result.success

\* C4: undoLastBatch with no batch log in the log directory returns
\* {success: false, processed: 0, errors: ['No undo history found']} and
\* changes neither the files nor the log directory.
C4_NoUndoHistory ==
    (Returned("undo") /\ DOMAIN last.logsBefore = {}) =>
        /\ last.result = [success |-> FALSE, processed |-> 0,
                          errors |-> <<[text |-> "No undo history found",
                                        path |-> <<>>, msg |-> ""]>>]
        /\ last.filesAfter = last.filesBefore
        /\ last.logsAfter = last.logsBefore

\* the second undo after a fully successful undo of the only batch
C4_SecondUndoReached ==
    /\ Returned("undo")
    /\ DOMAIN last.logsBefore = {}
    /\ Before.kind = "undo"
    /\ Before.success
    /\ Before.processed >= 1
    /\ Before.nLogsBefore = 1

\* C5: when execute returns, the log directory holds the entry of the batch,
\* with exactly its successful operations in order, each with its source and
\* the destination its file went to, iff an operation succeeded; a batch with
\* no success leaves the log directory as it was, and no other batch's entry
\* changes.
C5_LogOfBatch ==
    Returned("execute") =>
        LET done == Succeeded(last.ops, last.outcome)
        IN  /\ (Len(done) > 0) <=>
                  /\ last.logId \in DOMAIN last.logsAfter
                  /\ last.logsAfter[last.logId] =
                        [timestamp |-> last.logId, operations |-> done]
            /\ Len(done) > 0 =>
                  last.filesAfter =
                      ApplyMoves(last.filesBefore, last.logsAfter[last.logId].operations)
            /\ Len(done) = 0 => last.logsAfter = last.logsBefore
            /\ \A t \in DOMAIN last.logsBefore \ {last.logId} :
                  t \in DOMAIN last.logsAfter /\ last.logsAfter[t] = last.logsBefore[t]

\* a batch of one failed and one collision-renamed operation, logged with
\* the one operation that succeeded
C5_PartialBatchLogged ==
    /\ Returned("execute")
    /\ Len(last.ops) = 2
    /\ last.result.processed = 1
    /\ Len(last.result.errors) = 1
    /\ Len(last.logsAfter[last.logId].operations) = 1
    /\ last.logsAfter[last.logId].operations[1].destination \notin
          {last.ops[i].destination : i \in 1..2}

\* a batch without any success, which wrote no log
C5_NothingLogged ==
    /\ Returned("execute")
    /\ last.result.processed = 0
    /\ last.logId \notin DOMAIN last.logsAfter

Swapped(op) == [source |-> op.destination, destination |-> op.source]

C6_ContinuesAfterFailure ==
    /\ Returned("undo")
    /\ Len(last.outcome) = 2
    /\ ~last.outcome[1].ok

\* ---------------------------------------------------------- treeUtils
RECURSIVE findNode(_, _, _)
\* findNode(nodes, path): the first node with the path, in pre-order; 0 is
\* null
findNode(h, nodes, path) ==
    IF nodes = <<>> THEN 0
    ELSE LET node == Head(nodes)
             found == IF h[node].hasChildren THEN findNode(h, h[node].children, path) ELSE 0
         IN  IF h[node].path = path THEN node
             ELSE IF found # 0 THEN found
             ELSE findNode(h, Tail(nodes), path)

RECURSIVE removeNode(_, _, _)
\* removeNode(nodes, path): the list without the nodes of that path; the
\* children of every node kept are replaced in place: [h, out]
removeNode(h, nodes, path) ==
    IF nodes = <<>> THEN [h |-> h, out |-> <<>>]
    ELSE LET node == Head(nodes)
         IN  IF h[node].path = path THEN removeNode(h, Tail(nodes), path)
             ELSE LET kids == removeNode(h, h[node].children, path)
                      h1 == IF h[node].hasChildren
                            THEN [kids.h EXCEPT ![node].children = kids.out]
                            ELSE h
                      rest == removeNode(h1, Tail(nodes), path)
                  IN  [h |-> rest.h, out |-> <<node>> \o rest.out]

AddNodeToTargetMutantNoop(h, nodes, targetPath, nodeToAdd) == [h |-> h, out |-> nodes]

RECURSIVE addNodeToTarget(_, _, _, _)
\* addNodeToTarget(nodes, targetPath, nodeToAdd): a new list, with a new
\* object for every node that has the target path or has children: [h, out]
addNodeToTarget(h, nodes, targetPath, nodeToAdd) ==
    IF nodes = <<>> THEN [h |-> h, out |-> <<>>]
    ELSE LET node == Head(nodes)
             kids == addNodeToTarget(h, h[node].children, targetPath, nodeToAdd)
             this == IF h[node].path = targetPath
                     THEN [h |-> Append(h, [h[node] EXCEPT
                                               !.hasChildren = TRUE,
                                               !.children = Append(h[node].children, nodeToAdd)]),
                           a |-> Len(h) + 1]
                     ELSE IF h[node].hasChildren
                     THEN [h |-> Append(kids.h, [h[node] EXCEPT !.children = kids.out]),
                           a |-> Len(kids.h) + 1]
                     ELSE [h |-> h, a |-> node]
             rest == addNodeToTarget(this.h, Tail(nodes), targetPath, nodeToAdd)
         IN  [h |-> rest.h, out |-> <<this.a>> \o rest.out]

CloneRootsMutantAlias(h, roots) == [h |-> h, out |-> roots]

\* JSON.parse(JSON.stringify(roots))
CloneRoots(h, roots) == ParseAll(h, [k \in 1..Len(roots) |-> Stringify(h, roots[k])])

MoveFileInTreeMutantKeep(h, roots, sourcePath, targetPath) ==
    [h |-> h, out |-> roots, nodeToMove |-> findNode(h, roots, sourcePath)]

\* moveFileInTree(roots, sourcePath, targetPath): [h, out, nodeToMove]
moveFileInTree(h, roots, sourcePath, targetPath) ==
    LET nodeToMove == findNode(h, roots, sourcePath)
        cloned == CloneRoots(h, roots)
        rootsWithoutSource == removeNode(cloned.h, cloned.out, sourcePath)
        added == addNodeToTarget(rootsWithoutSource.h, rootsWithoutSource.out,
                                 targetPath, nodeToMove)
    IN  IF nodeToMove = 0
        THEN [h |-> h, out |-> roots, nodeToMove |-> 0]
        ELSE [h |-> added.h, out |-> added.out, nodeToMove |-> nodeToMove]

MaxMoves == 2      \* moveFileInTree calls in one behaviour

\* the roots of the working tree, as the list handleMoveNode passes
Roots(w) == IF w > 0 THEN <<w>> ELSE <<>>

\* a path no node has
UnknownPath == <<nR, nZ>>

RECURSIVE ReachAll(_, _)
\* the node objects of the trees of a list
ReachAll(h, nodes) ==
    IF nodes = <<>> THEN {}
    ELSE {Head(nodes)} \union ReachAll(h, h[Head(nodes)].children)
                       \union ReachAll(h, Tail(nodes))

\* the paths moveFileInTree is called with: those of the nodes of the tree
\* and one that no node has
MovePaths(h, roots) == {h[a].path : a \in ReachAll(h, roots)} \union {UnknownPath}

\* handleMoveNode(sourcePath, targetPath): moveFileInTree on the working
\* tree; the result becomes the working tree. The records of the last
\* preview and of the last calculateDiff call, made on the trees as they
\* were, are cleared.
MoveNode ==
    /\ working # 0
    /\ nMoves < MaxMoves
    /\ \E sourcePath \in MovePaths(heap, Roots(working)) :
       \E targetPath \in MovePaths(heap, Roots(working)) :
       \E res \in {moveFileInTree(heap, Roots(working), sourcePath, targetPath)} :
          /\ heap' = res.h
          /\ working' = IF res.out = <<>> THEN -1 ELSE res.out[1]
          /\ lastMove' = [called |-> TRUE, sourcePath |-> sourcePath,
                          targetPath |-> targetPath, input |-> Roots(working),
                          nodeToMove |-> res.nodeToMove, output |-> res.out]
          /\ history' = Append(history,
                               [roots |-> Roots(working),
                                sourcePath |-> sourcePath,
                                targetPath |-> targetPath,
                                value |-> [k \in 1..Len(Roots(working)) |->
                                              Stringify(heap, Roots(working)[k])]])
    /\ nMoves' = nMoves + 1
    /\ applied' = NoPreview
    /\ diffed' = NoDiff
    /\ UNCHANGED <<snapshot, scanned, execVars, scanVars, flow, agent>>

\* a folder with two files was scanned and a strategy applied: the state
\* handlePreview leaves
InitMove ==
    /\ scanned = Scan({x \in Slots : x.dir # nS})
    /\ snapshot = Parse(<<>>, scanned).a
    /\ \E strategyId \in {"time", "type", "topic"} :
       \E reply \in (IF strategyId = "topic" THEN {r \in Replies : r.kind = "mapping"}
                     ELSE {NoReply}) :
       \E h0 \in {Parse(<<>>, scanned).h} :
       \E rs \in [1..Created(strategyId, h0, snapshot, reply) -> RandomSuffixes] :
       \E res \in {Apply(strategyId, h0, snapshot, reply, rs, Clock0)} :
          /\ heap = res.h
          /\ working = res.a
          /\ applied = [strategy |-> strategyId, reply |-> reply, ok |-> res.ok,
                        error |-> res.error, root |-> snapshot, result |-> res.a]
    /\ diffed = NoDiff
    /\ lastMove = NoMove
    /\ history = <<>>
    /\ nMoves = 0
    /\ files = NoFiles
    /\ dirs = {}
    /\ logs = NoLogs
    /\ now = Clock0
    /\ call = [c \in Callers |-> Idle]
    /\ last = NoCall
    /\ lost = {}
    /\ nExec = 0
    /\ nUndo = 0
    /\ NoScanner
    /\ NoFlow
    /\ NoAgent

NextMove == MoveNode

SpecMove == InitMove /\ [][NextMove]_vars

\* ----------------------------------------------------- claims on the trees
RECURSIVE Reach(_, _)
\* the node objects of the tree at a
Reach(h, a) == {a} \union UNION {Reach(h, h[a].children[k]) : k \in 1..Len(h[a].children)}

RECURSIVE Positions(_, _)
\* the positions at and below a node, as lists of child indices, that are
\* reached through directory nodes only
Positions(h, a) ==
    {<<>>} \union
    (IF h[a].type # "file" /\ h[a].hasChildren
     THEN UNION {{<<k>> \o p : p \in Positions(h, h[a].children[k])} :
                    k \in 1..Len(h[a].children)}
     ELSE {})

\* the positions below the root
Below(h, root) ==
    IF h[root].hasChildren
    THEN UNION {{<<k>> \o p : p \in Positions(h, h[root].children[k])} :
                   k \in 1..Len(h[root].children)}
    ELSE {}

RECURSIVE NodeAt(_, _, _)
NodeAt(h, a, p) == IF p = <<>> THEN a ELSE NodeAt(h, h[a].children[Head(p)], Tail(p))

\* the names of the nodes on the way from below the root to position p
NamesTo(h, root, p) == [k \in 1..Len(p) |-> h[NodeAt(h, root, SubSeq(p, 1, k))].name]

\* originalRootPath / ancestor directories' names / file.name
PlaceOf(h, rootPath, root, p) == normalize(rootPath \o NamesTo(h, root, p))

FilePositions(h, root) == {p \in Below(h, root) : h[NodeAt(h, root, p)].type = "file"}

\* the move of the file at position p
MoveOf(h, rootPath, root, p) ==
    Move(h[NodeAt(h, root, p)].path, PlaceOf(h, rootPath, root, p))

\* the files whose place differs from their path
Displaced(h, rootPath, root) ==
    {p \in FilePositions(h, root) :
        normalize(h[NodeAt(h, root, p)].path) # PlaceOf(h, rootPath, root, p)}

\* every node's path is its parent's path joined with its name
SnapshotShaped(h, root) ==
    \A a \in Reach(h, root) : \A k \in 1..Len(h[a].children) :
        h[h[a].children[k]].path = Append(h[a].path, h[h[a].children[k]].name)

\* the directory names put every file at its own path
FilesInPlace(h, root) ==
    \A p \in FilePositions(h, root) :
        h[NodeAt(h, root, p)].path = PlaceOf(h, h[root].path, root, p)

Unreorganized(h, root) == SnapshotShaped(h, root) \/ FilesInPlace(h, root)

\* C7: calculateDiff(root.path, root) on an unreorganized tree, a snapshot
\* or a proposed tree whose directory names put every file at its original
\* path, returns the empty list.
C7_DiffOfUnreorganizedEmpty ==
    (/\ diffed.of # "none"
     /\ diffed.rootPath = heap[diffed.root].path
     /\ Unreorganized(heap, diffed.root))
    => diffed.ops = <<>>

\* a proposed tree, built by a strategy, that leaves its files in place
C7_UnmovedProposalDiffed ==
    /\ diffed.of = "working"
    /\ diffed.rootPath = heap[diffed.root].path
    /\ FilesInPlace(heap, diffed.root)
    /\ FilePositions(heap, diffed.root) # {}
    /\ ~SnapshotShaped(heap, diffed.root)

\* C8: calculateDiff(rootPath, root) returns exactly the moves of the
\* displaced files: for every file reached through directories from the
\* root, one move from its path to rootPath / ancestors' names / its name
\* iff the two differ after normalization, and nothing else.
C8_DiffIsTheDisplacedFiles ==
    diffed.of # "none" =>
        LET moved == Displaced(heap, diffed.rootPath, diffed.root)
            moveOf(p) == MoveOf(heap, diffed.rootPath, diffed.root, p)
        IN  /\ Len(diffed.ops) = Cardinality(moved)
            /\ \A p \in moved :
                  Cardinality({k \in 1..Len(diffed.ops) : diffed.ops[k] = moveOf(p)})
                  = Cardinality({q \in moved : moveOf(q) = moveOf(p)})

\* a diff of a proposed tree in which some files move, below directories
\* with synthetic paths, and one stays
C8_MovedAndUnmovedDiffed ==
    /\ diffed.of = "working"
    /\ diffed.ops # <<>>
    /\ Displaced(heap, diffed.rootPath, diffed.root) # FilePositions(heap, diffed.root)

\* C9: apply leaves the input tree as it was, every node object with its
\* fields and children, also when it fails; the returned root has the input
\* root's path and name, and below it there are only objects created by the
\* call, none of the input tree.
C9_ApplyLeavesInput ==
    applied.strategy # "none" =>
        /\ SubSeq(heap, 1, snapshot) = Parse(<<>>, scanned).h
        /\ Stringify(heap, applied.root) = scanned
        /\ ~applied.ok => applied.result = 0 /\ applied.error # ""
        /\ applied.ok =>
              /\ heap[applied.result].path = heap[applied.root].path
              /\ heap[applied.result].name = heap[applied.root].name
              /\ Reach(heap, applied.result) \intersect Reach(heap, applied.root) = {}
              /\ \A a \in Reach(heap, applied.result) : a > snapshot

\* apply returned a tree with two directories holding files
C9_ApplySucceeded ==
    /\ applied.ok
    /\ applied.strategy # "none"
    /\ Len(heap[applied.result].children) >= 2
    /\ Len(flattenFiles(heap, applied.result)) >= 2

\* the paths of the file nodes below a node, with their multiplicities
PathCount(h, root, path) ==
    LET fs == flattenFiles(h, root)
    IN  Cardinality({i \in 1..Len(fs) : h[fs[i]].path = path})

FilePaths(h, root) ==
    LET fs == flattenFiles(h, root)
    IN  {h[fs[i]].path : i \in 1..Len(fs)}

\* C10: the multiset of file paths in apply(root) is that of root, for
\* Time, Type and Topic.
C10_FilesConserved ==
    applied.ok /\ applied.strategy # "none" =>
        \A path \in FilePaths(heap, applied.root) \union FilePaths(heap, applied.result) :
            PathCount(heap, applied.result, path) = PathCount(heap, applied.root, path)

\* the names the reply lists, in any topic
ListedNames(reply) ==
    UNION {{reply.entries[e].names[k] : k \in 1..Len(reply.entries[e].names)} :
              e \in 1..Len(reply.entries)}

\* C11: the Topic strategy partitions its input: every file node in a bucket
\* is a file of the input, every file of the input is in exactly one bucket,
\* and the files the reply does not name are in a trailing 'Uncategorized'
\* bucket.
C11_TopicPartitions ==
    (applied.strategy = "topic" /\ applied.ok) =>
        LET input == flattenFiles(heap, applied.root)
            output == flattenFiles(heap, applied.result)
            buckets == heap[applied.result].children
        IN  /\ \A j \in 1..Len(output) : \E i \in 1..Len(input) :
                  heap[output[j]] = heap[input[i]]
            /\ \A i \in 1..Len(input) :
                  Cardinality({j \in 1..Len(output) : heap[output[j]] = heap[input[i]]}) = 1
            /\ \A i \in 1..Len(input) :
                  heap[input[i]].name \notin ListedNames(applied.reply) =>
                      /\ buckets # <<>>
                      /\ heap[Last(buckets)].name = nUncategorized
                      /\ \E k \in 1..Len(heap[Last(buckets)].children) :
                            heap[heap[Last(buckets)].children[k]] = heap[input[i]]

\* the year and the month (1..12) a modification time falls in, as numbers
YearNumber(node) == 1970 + (node.mtime \div 12)

MonthNumber(node) == (node.mtime % 12) + 1

\* the decimal numeral s denotes n, s having at least width digits
Denotes(s, n, width) ==
    /\ Len(s) >= width
    /\ \A k \in 1..Len(s) : s[k] \in {DigitChar(d) : d \in 0..9}
    /\ \E f \in [1..Len(s) -> 0..9] :
          /\ \A k \in 1..Len(s) : s[k] = DigitChar(f[k])
          /\ n = (IF Len(s) = 1 THEN f[1]
                  ELSE IF Len(s) = 2 THEN 10 * f[1] + f[2]
                  ELSE IF Len(s) = 4 THEN 1000 * f[1] + 100 * f[2] + 10 * f[3] + f[4]
                  ELSE -1)

\* C12: the Time strategy returns root/<year>/<month>/<file>: each file of
\* the input once, under the year and the two-digit month of its
\* modification time; one directory per populated year and per populated
\* (year, month), none empty; years newest first, months descending.
C12_TimeTree ==
    (applied.strategy = "time" /\ applied.ok) =>
        LET input == flattenFiles(heap, applied.root)
            years == heap[applied.result].children
            months(y) == heap[years[y]].children
            members(y, m) == heap[months(y)[m]].children
            yearAt(y) == YearNumber(heap[members(y, 1)[1]])
            monthAt(y, m) == MonthNumber(heap[members(y, m)[1]])
        IN  /\ \A y \in 1..Len(years) :
                  /\ heap[years[y]].type = "directory"
                  /\ months(y) # <<>>
                  /\ \A m \in 1..Len(months(y)) :
                        /\ heap[months(y)[m]].type = "directory"
                        /\ members(y, m) # <<>>
                        /\ Len(heap[months(y)[m]].name) = 2
                        /\ \A k \in 1..Len(members(y, m)) :
                              /\ heap[members(y, m)[k]].type = "file"
                              /\ Denotes(heap[years[y]].name,
                                         YearNumber(heap[members(y, m)[k]]), 1)
                              /\ Denotes(heap[months(y)[m]].name,
                                         MonthNumber(heap[members(y, m)[k]]), 2)
                  /\ \A m \in 1..(Len(months(y)) - 1) : monthAt(y, m) > monthAt(y, m + 1)
            /\ \A y \in 1..(Len(years) - 1) : yearAt(y) > yearAt(y + 1)
            /\ \A i \in 1..Len(input) :
                  Cardinality({<<y, m, k>> \in (1..Len(input)) \X (1..Len(input)) \X (1..Len(input)) :
                                  /\ y <= Len(years)
                                  /\ m <= Len(months(y))
                                  /\ k <= Len(members(y, m))
                                  /\ heap[members(y, m)[k]] = heap[input[i]]}) = 1

\* the Time strategy built two years, the newer with two months
C12_TwoYearsTwoMonths ==
    /\ applied.strategy = "time"
    /\ applied.ok
    /\ Len(heap[applied.result].children) = 2
    /\ Len(heap[heap[applied.result].children[1]].children) = 2

\* ------------------------------------------------- claims on moveFileInTree
\* the value of a list of trees
ValueOf(h, roots) == [k \in 1..Len(roots) |-> Stringify(h, roots[k])]

\* C13: moveFileInTree never changes the trees passed to it: every tree the
\* caller handed in, in this call or an earlier one, has the nodes, children
\* and child order it had when it was handed in; and when sourcePath matches
\* no node the call returns the list it was given.
C13_MoveKeepsInput ==
    /\ \A k \in 1..Len(history) : ValueOf(heap, history[k].roots) = history[k].value
    /\ (lastMove.called /\ lastMove.nodeToMove = 0) =>
          /\ lastMove.output = lastMove.input
          /\ ValueOf(heap, lastMove.output) = history[Len(history)].value

\* two calls in a row moved a node each, the second on the tree the first
\* returned
C13_TwoMovesMade ==
    /\ Len(history) = 2
    /\ lastMove.nodeToMove # 0
    /\ history[2].roots # history[1].roots
    /\ history[2].value # history[1].value
    /\ ValueOf(heap, lastMove.output) # history[2].value

\* no two nodes of the trees have one path
UniquePaths(h, roots) ==
    \A a, b \in ReachAll(h, roots) : a # b => h[a].path # h[b].path

\* the paths of a node's children, in order
ChildPaths(h, a) == [k \in 1..Len(h[a].children) |-> h[h[a].children[k]].path]

Without(paths, path) == SelectSeq(paths, LAMBDA q : q # path)

\* a node's own fields
Fields(node) == [node EXCEPT !.children = <<>>]

\* the last call had a source node, a target directory outside the source's
\* subtree, and a tree with unique paths
MovePossible ==
    /\ lastMove.called
    /\ lastMove.nodeToMove # 0
    /\ UniquePaths(heap, lastMove.input)
    /\ LET target == findNode(heap, lastMove.input, lastMove.targetPath)
       IN  /\ target # 0
           /\ heap[target].type = "directory"
           /\ target \notin Reach(heap, lastMove.nodeToMove)

\* C14: with source and target directory present, the target outside the
\* source's subtree and node paths unique, the returned tree has the nodes
\* of the input, each once and with its fields; the source, with its
\* subtree as it was, is the last child of the target; every other node has
\* the children it had, in their order, less the source.
C14_MoveRelocatesSource ==
    MovePossible =>
        LET source == lastMove.nodeToMove
            target == findNode(heap, lastMove.input, lastMove.targetPath)
            input == ReachAll(heap, lastMove.input)
            output == ReachAll(heap, lastMove.output)
        IN  /\ Len(lastMove.output) = Len(lastMove.input)
            /\ UniquePaths(heap, lastMove.output)
            /\ {heap[a].path : a \in output} = {heap[a].path : a \in input}
            /\ \A a \in input :
                  LET b == findNode(heap, lastMove.output, heap[a].path)
                  IN  /\ b # 0
                      /\ Fields(heap[b]) = Fields(heap[a])
                      /\ ChildPaths(heap, b) =
                            IF a = target
                            THEN Append(Without(ChildPaths(heap, a), heap[source].path),
                                        heap[source].path)
                            ELSE IF a \in Reach(heap, source)
                            THEN ChildPaths(heap, a)
                            ELSE Without(ChildPaths(heap, a), heap[source].path)

\* a directory with children was moved from one directory into another
C14_DirectoryMoved ==
    /\ MovePossible
    /\ heap[lastMove.nodeToMove].type = "directory"
    /\ heap[lastMove.nodeToMove].children # <<>>
    /\ LET target == findNode(heap, lastMove.input, lastMove.targetPath)
       IN  lastMove.nodeToMove \notin
               {heap[target].children[k] : k \in 1..Len(heap[target].children)}

RECURSIVE PathCountAll(_, _, _)
\* how many file nodes of the trees have the path
PathCountAll(h, nodes, path) ==
    IF nodes = <<>> THEN 0
    ELSE (IF h[Head(nodes)].type = "file" /\ h[Head(nodes)].path = path THEN 1 ELSE 0)
            + PathCountAll(h, h[Head(nodes)].children, path)
            + PathCountAll(h, Tail(nodes), path)

FilePathsAll(h, roots) ==
    {h[a].path : a \in {b \in ReachAll(h, roots) : h[b].type = "file"}}

\* the last call had a source node and a target path that no node has
TargetUnknown ==
    /\ lastMove.called
    /\ lastMove.nodeToMove # 0
    /\ findNode(heap, lastMove.input, lastMove.targetPath) = 0

\* C15: a move of an existing source to a target path that no node has
\* returns the tree with, as a multiset, the input's files less the files of
\* the source's subtree.
C15_UnknownTargetDropsSource ==
    TargetUnknown =>
        \A path \in FilePathsAll(heap, lastMove.input) \union FilePathsAll(heap, lastMove.output) :
            PathCountAll(heap, lastMove.output, path)
                = PathCountAll(heap, lastMove.input, path)
                    - PathCountAll(heap, <<lastMove.nodeToMove>>, path)

\* ------------------------------------------------- claims on the scanner
RECURSIVE FileValues(_)
\* the file nodes of a tree given as a value
FileValues(v) ==
    IF v.type = "file" THEN {v}
    ELSE UNION {FileValues(v.children[k]) : k \in 1..Len(v.children)}

RECURSIVE NodeValues(_)
\* the nodes of a tree given as a value
NodeValues(v) == {v} \union UNION {NodeValues(v.children[k]) : k \in 1..Len(v.children)}

RECURSIVE SumOver(_)
\* the sum of the sizes of a set of nodes
SumOver(S) ==
    IF S = {} THEN 0 ELSE LET x == CHOOSE y \in S : TRUE IN x.size + SumOver(S \ {x})

\* C16: after a successful scan fileCount is the number of file nodes of the
\* returned tree, totalSize is root.size and the sum of the sizes of its file
\* nodes, and each directory node's size is the sum of its children's sizes.
C16_ScanTotals ==
    scan.ok =>
        /\ scan.fileCount = Cardinality(FileValues(scan.root))
        /\ scan.totalSize = scan.root.size
        /\ scan.totalSize = SumOver(FileValues(scan.root))
        /\ \A v \in NodeValues(scan.root) :
              v.type = "directory" => v.size = SumValues(v.children)

\* a scan succeeded in a folder with a nested directory, files on three
\* levels, and entries that could not be read
C16_PartialScan ==
    /\ scan.ok
    /\ scan.dirPath = <<nR>>
    /\ scan.fileCount = 3
    /\ Cardinality(NodeValues(scan.root)) = 6
    /\ \E path \in ScanPaths : folder[path] = "nostat"

\* the entry at path is a file or a listable directory, and so is each
\* directory on the way to it from the scanned folder
Readable(e, dirPath, path) ==
    /\ IsPrefix(dirPath, path)
    /\ e[path] \in {"file", "directory"}
    /\ \A n \in Len(dirPath)..(Len(path) - 1) : e[SubSeq(path, 1, n)] = "directory"

\* the returned tree holds exactly the readable entries, each under its
\* directory and as what it is
ScanHoldsReadable ==
    scan.ok =>
        /\ {v.path : v \in NodeValues(scan.root)}
              = {path \in ScanPaths : Readable(folder, scan.dirPath, path)}
        /\ scan.root.path = scan.dirPath
        /\ \A v \in NodeValues(scan.root) :
              /\ v.type = folder[v.path]
              /\ v.type = "file" => v.size = StatSize(v.path) /\ v.children = <<>>
              /\ {v.children[k].path : k \in 1..Len(v.children)}
                    = {path \in ScanPaths :
                          /\ Readable(folder, scan.dirPath, path)
                          /\ Len(path) = Len(v.path) + 1
                          /\ IsPrefix(v.path, path)}

CreatedDirectories ==
    {a \in Reach(heap, applied.result) \ {applied.result} : heap[a].type = "directory"}

\* C18: the directories one apply call creates have paths of the form
\* virtual://<name>-<suffix>, pairwise distinct also where two of them have
\* one name.
C18_VirtualPathsDistinct ==
    applied.ok /\ applied.strategy # "none" =>
        /\ \A a \in CreatedDirectories :
              \E r \in RandomSuffixes : heap[a].path = VirtualPath(heap[a].name, r)
        /\ \A a, b \in CreatedDirectories : a # b => heap[a].path # heap[b].path

\* the nodes of the snapshot and of the working tree
PipelineNodes ==
    (IF snapshot > 0 THEN Reach(heap, snapshot) ELSE {}) \union ReachAll(heap, Roots(working))

\* C19: no file node of the snapshot, of a proposed tree or of the working
\* tree after any moveFileInTree calls has children.
C19_FilesHaveNoChildren ==
    \A a \in PipelineNodes :
        heap[a].type = "file" => heap[a].children = <<>> /\ ~heap[a].hasChildren

RECURSIVE FileSizeBelow(_, _)
\* the sum of the sizes of the file nodes at and below the nodes of a list
FileSizeBelow(h, nodes) ==
    IF nodes = <<>> THEN 0
    ELSE (IF h[Head(nodes)].type = "file" THEN h[Head(nodes)].size ELSE 0)
            + FileSizeBelow(h, h[Head(nodes)].children)
            + FileSizeBelow(h, Tail(nodes))

\* C20: in the snapshot, in a proposed tree and in the working tree after any
\* moveFileInTree calls, each directory's size is the sum of the sizes of
\* the file nodes below it.
C20_DirectorySizes ==
    \A a \in PipelineNodes :
        heap[a].type = "directory" => heap[a].size = FileSizeBelow(heap, heap[a].children)

\* ------------------------------------------- claims on undo and batches
\* the operations of the log an undo selected
Logged(s) == s.logsBefore[s.logId].operations

\* a batch of two logged moves whose second went to the path the first left
VacatedPathBatch(s) ==
    /\ Len(Logged(s)) = 2
    /\ Logged(s)[2].destination = Logged(s)[1].source

NoClobberByUndo == \A l \in lost : l.by # "undo"

\* C21: undoLastBatch attempts the logged operations from the last to the
\* first, each as a rename from the logged destination to the logged source
\* whose parent directory it creates first; a batch whose second move went
\* to the path the first one left is put back with no file replaced.
C21_UndoInReverse ==
    /\ call[1].pc = "revert" =>
          LET logged == call[1].logsBefore[call[1].logId].operations
              n == Len(logged)
          IN  /\ Len(call[1].ops) = n
              /\ \A k \in 1..n : call[1].ops[k] = logged[n + 1 - k]
              /\ \A k \in 1..(call[1].i - 1) :
                    call[1].outcome[k].ok =>
                        /\ call[1].outcome[k].dest = logged[n + 1 - k].source
                        /\ dirname(logged[n + 1 - k].source) \in dirs \cup {<<>>}
    /\ (Returned("undo") /\ DOMAIN last.logsBefore # {}) =>
          LET logged == Logged(last)
              n == Len(logged)
              back == [k \in 1..n |-> Swapped(logged[n + 1 - k])]
          IN  /\ Len(last.outcome) = n
              /\ last.filesAfter = ApplyMoves(last.filesBefore, Succeeded(back, last.outcome))
              /\ \A k \in 1..Len(last.result.errors) :
                    last.result.errors[k].path = FailedSources(back, last.outcome)[k]
              /\ (VacatedPathBatch(last) /\ Before.kind = "execute"
                      /\ Before.logId = last.logId /\ Before.processed = 2) =>
                    /\ last.result = [success |-> TRUE, processed |-> 2, errors |-> <<>>]
                    /\ last.filesAfter = Before.filesBefore
                    /\ NoClobberByUndo

\* a batch A -> B, C -> A was undone: C's file went back first, then A's
C21_VacatedPathUndone ==
    /\ Returned("undo")
    /\ DOMAIN last.logsBefore # {}
    /\ VacatedPathBatch(last)
    /\ Before.kind = "execute"
    /\ Before.logId = last.logId
    /\ last.result.success
    /\ last.outcome[1].dest = Logged(last)[2].source
    /\ last.outcome[2].dest = Logged(last)[1].source
    /\ last.filesAfter = Before.filesBefore

\* C22: undoLastBatch selects the log with the greatest timestamp, that of
\* the batch started last among those that have a log; a fully successful
\* undo that follows a fully successful undo reverts the batch started next
\* before, each call taking one log away.
C22_UndoSelectsLatest ==
    /\ call[1].pc = "revert" =>
          /\ call[1].logId \in DOMAIN call[1].logsBefore
          /\ \A t \in DOMAIN call[1].logsBefore : t <= call[1].logId
    /\ (Returned("undo") /\ DOMAIN last.logsBefore # {}) =>
          /\ \A t \in DOMAIN last.logsBefore : t <= last.logId
          /\ (last.result.success /\ Before.kind = "undo" /\ Before.success
                  /\ Before.nLogsBefore >= 1) =>
                /\ last.logId < Before.logId
                /\ Before.logId \notin DOMAIN last.logsBefore
                /\ Cardinality(DOMAIN last.logsAfter) = Before.nLogsBefore - 2

\* two batches with different timestamps were undone by two undos, the
\* later batch first
C22_TwoBatchesUndone ==
    /\ Returned("undo")
    /\ last.result.success
    /\ last.result.processed >= 1
    /\ Before.kind = "undo"
    /\ Before.success
    /\ Before.nLogsBefore = 2
    /\ last.logId < Before.logId
    /\ DOMAIN last.logsAfter = {}

\* the call that just returned is an undo that follows an undo in which
\* some reversals succeeded and others failed
RetryOfPartialUndo ==
    /\ Returned("undo")
    /\ Before.kind = "undo"
    /\ Before.nLogsBefore >= 1
    /\ ~Before.success
    /\ Before.processed >= 1

\* the error reported for the k-th attempt of a call, which failed
ErrorOfAttempt(s, k) ==
    s.result.errors[Cardinality({j \in 1..k : ~s.outcome[j].ok})]

\* C23: an undo retried after a partial undo selects the same log, attempts
\* all its operations again, fails on those reverted before because nothing
\* is at their destination any more, reports errors and keeps the log.
C23_RetryAfterPartialUndo ==
    RetryOfPartialUndo =>
        /\ last.logId = Before.logId
        /\ Len(Logged(last)) = Len(Before.outcome)
        /\ Len(last.outcome) = Len(Logged(last))
        /\ \A k \in 1..Len(last.outcome) :
              Before.outcome[k].ok =>
                  /\ ~last.outcome[k].ok
                  /\ ErrorOfAttempt(last, k).msg = "ENOENT"
                  /\ ErrorOfAttempt(last, k).path = UndoOrder(Logged(last))[k].destination
        /\ ~last.result.success
        /\ last.result.errors # <<>>
        /\ last.logsAfter = last.logsBefore
        /\ last.logId \in DOMAIN logs
        /\ LatestLog(logs) = last.logId

\* ------------------------------------------- claims on concurrent callers
\* C24: a rename of execute replaces a file only in a call that ran while
\* another call ran; a call that runs alone finds the name it probed as
\* free still free at its rename.
C24_ClobberNeedsOverlap ==
    [][\A c \in Callers :
          (/\ call[c].pc = "rename"
           /\ call'[c].pc = "probe"
           /\ \E l \in lost' \ lost : l.by = "execute")
              => /\ call[c].overlapped
                 /\ call[c].uniqueDest \in DOMAIN files]_vars

\* two execute calls in flight probed one destination as free and both
\* renamed onto it: the file moved first was replaced
C24_BothRenamedOntoOneName ==
    /\ call[1].pc = "probe" /\ call[2].pc = "probe"
    /\ Len(call[1].outcome) = 1 /\ Len(call[2].outcome) = 1
    /\ call[1].outcome[1].ok /\ call[2].outcome[1].ok
    /\ call[1].outcome[1].dest = call[2].outcome[1].dest
    /\ call[1].ops[1].destination = call[1].outcome[1].dest
    /\ call[2].ops[1].destination = call[2].outcome[1].dest
    /\ call[1].ops[1].source # call[2].ops[1].source
    /\ \E l \in lost : l.by = "execute"

\* C25: with one call at a time no step of execute or of undoLastBatch
\* replaces a file, and no call ends with fewer files than it began with.
C25_NoFileReplaced ==
    /\ lost = {}
    /\ call[1].pc # "idle" =>
          Cardinality(DOMAIN files) >= Cardinality(DOMAIN call[1].filesBefore)
    /\ Returned("execute") \/ Returned("undo") =>
          Cardinality(DOMAIN last.filesAfter) >= Cardinality(DOMAIN last.filesBefore)

\* ------------------------------------------- claims on Apply and Undo
\* C26: after an Apply and the successful Undo that follows it every file
\* is at the path it had before the Apply: those the Apply moved are back,
\* and no other file was moved.
C26_UndoRevertsApply ==
    flow.phase = "undone" => files = flow.filesBefore

\* ------------------------------------------- claims on sequences of moves
\* the k-th call had a tree with unique paths, a source node and a target
\* directory outside the source's subtree
MovePossibleAt(k) ==
    LET roots == history[k].roots
        source == findNode(heap, roots, history[k].sourcePath)
        target == findNode(heap, roots, history[k].targetPath)
    IN  /\ UniquePaths(heap, roots)
        /\ source # 0
        /\ target # 0
        /\ heap[target].type = "directory"
        /\ target \notin Reach(heap, source)

\* the tree the k-th call returned
ReturnedAt(k) == IF k < Len(history) THEN history[k + 1].roots ELSE Roots(working)

\* calculateDiff on the working tree, as handleApply calls it, has the file:
\* as the source of an operation, or at the place its path names
DiffCovers(path) ==
    LET ops == calculateDiff(heap, heap[snapshot].path, working)
    IN  \/ \E i \in 1..Len(ops) : ops[i].source = path
        \/ \E p \in FilePositions(heap, working) :
              /\ heap[NodeAt(heap, working, p)].path = path
              /\ p \notin Displaced(heap, heap[snapshot].path, working)

\* C27: a move on a tree with unique node paths, with a source node and a
\* target directory that is neither the source nor below it, returns a tree
\* with the multiset of file paths of its input; after a sequence of such
\* moves on a proposed tree the working tree has the file paths of that
\* tree, each as often, and calculateDiff on it covers every file of the
\* snapshot.
C27_MovesConserveFiles ==
    /\ MovePossible =>
          \A path \in FilePathsAll(heap, lastMove.input) \union FilePathsAll(heap, lastMove.output) :
              PathCountAll(heap, lastMove.output, path) = PathCountAll(heap, lastMove.input, path)
    /\ (history # <<>> /\ \A k \in 1..Len(history) : MovePossibleAt(k)) =>
          /\ working > 0
          /\ \A k \in 1..Len(history) :
             \A path \in FilePathsAll(heap, history[1].roots) \union FilePathsAll(heap, ReturnedAt(k)) :
                PathCountAll(heap, ReturnedAt(k), path) = PathCountAll(heap, history[1].roots, path)
          /\ \A path \in FilePaths(heap, snapshot) : DiffCovers(path)

\* two such moves in a row, the second of a directory that holds a file
C27_TwoMovesConserved ==
    /\ Len(history) = 2
    /\ \A k \in 1..2 : MovePossibleAt(k)
    /\ heap[lastMove.nodeToMove].type = "directory"
    /\ FilePathsAll(heap, <<lastMove.nodeToMove>>) # {}
    /\ FilePaths(heap, snapshot) # {}

\* the last call had a source node and a target that is the source or a
\* directory inside the source's subtree
TargetInsideSource ==
    /\ lastMove.called
    /\ lastMove.nodeToMove # 0
    /\ LET target == findNode(heap, lastMove.input, lastMove.targetPath)
       IN  /\ target # 0
           /\ target \in Reach(heap, lastMove.nodeToMove)
           /\ target = lastMove.nodeToMove \/ heap[target].type = "directory"

\* C28: a move whose target is the source itself or a directory inside the
\* source's subtree returns a tree without cycle and without duplicate: no
\* node of the source's subtree is in it, its files are, as a multiset, the
\* input's files less those of the source's subtree, and it is the tree that
\* the same move to a target path no node has returns.
C28_TargetInsideSourceDropsSource ==
    TargetInsideSource =>
        /\ Reach(heap, lastMove.nodeToMove) \cap ReachAll(heap, lastMove.output) = {}
        /\ \A path \in FilePathsAll(heap, lastMove.input) \union FilePathsAll(heap, lastMove.output) :
              PathCountAll(heap, lastMove.output, path)
                  = PathCountAll(heap, lastMove.input, path)
                      - PathCountAll(heap, <<lastMove.nodeToMove>>, path)
        /\ ValueOf(heap, lastMove.output)
              = ValueOf(moveFileInTree(heap, lastMove.input, lastMove.sourcePath, UnknownPath).h,
                        moveFileInTree(heap, lastMove.input, lastMove.sourcePath, UnknownPath).out)

\* C29: every batch keeps its own undo record: an execute call that returns
\* with a successful move leaves a log of its own, and the logs that were
\* there when it started, those of the batches before it, are there as they
\* were, also when it started in the millisecond an earlier batch started in.
C29_OwnLogPerBatch ==
    (Returned("execute") /\ Len(Succeeded(last.ops, last.outcome)) > 0) =>
        /\ last.logId \in DOMAIN last.logsAfter
        /\ \A t \in DOMAIN last.logsBefore :
              t \in DOMAIN last.logsAfter /\ last.logsAfter[t] = last.logsBefore[t]
        /\ Cardinality(DOMAIN last.logsAfter) = Cardinality(DOMAIN last.logsBefore) + 1

\* --------------------------------------------------------------- the Agent
DefaultMaxIterations == 10   \* config.maxIterations || 10
MaxConfigured == 3           \* greatest maxIterations a configuration gives
MaxToolCalls == 2            \* tool calls the model asks for in one run

DigitStrs == <<"0", "1", "2", "3", "4", "5", "6", "7", "8", "9">>

RECURSIVE ToStr(_)
\* a natural number in a template literal: its decimal digits
ToStr(n) == IF n < 10 THEN DigitStrs[n + 1]
            ELSE ToStr(n \div 10) \o DigitStrs[(n % 10) + 1]

\* a ChatMessage; tool_calls, tool_call_id and name may be absent
Msg(role, content, hasToolCalls, tool_calls, tool_call_id, name) ==
    [role |-> role, content |-> content, hasToolCalls |-> hasToolCalls,
     tool_calls |-> tool_calls, tool_call_id |-> tool_call_id, name |-> name]

NoMessage == Msg("", "", FALSE, <<>>, "", "")

UserMessage(content) == Msg("user", content, FALSE, <<>>, "", "")

\* the tool calls of one assistant message, numbered on from those asked before
ToolCallList(from, n) == [k \in 1..n |-> [id |-> "t" \o ToStr(from + k), name |-> "list"]]

\* the config.maxIterations values: absent, or a number
Configs ==
    {[set |-> FALSE, value |-> 0]} \union {[set |-> TRUE, value |-> n] : n \in 0..MaxConfigured}

MaxIterationsMutantAsGiven(config) == config.value

\* constructor, line 70: config.maxIterations || 10
MaxIterations(config) ==
    IF config.set /\ config.value # 0 THEN config.value ELSE DefaultMaxIterations

\* formatError(error) for an Error with the message given
formatError(message) == "Error: " \o message

\* what client.chatWithTools does: it throws, or returns a response with no
\* choice, or one whose first choice has a finish_reason and a message, with
\* or without tool_calls. The messages that ask for tools have no content.
Responses(left) ==
    {[throws |-> TRUE, thrown |-> "timeout", choices |-> <<>>],
     [throws |-> FALSE, thrown |-> "", choices |-> <<>>]}
    \union
    {[throws |-> FALSE, thrown |-> "",
      choices |-> <<[finish_reason |-> c.fr,
                     message |-> Msg("assistant", c.content, FALSE, <<>>, "", "")]>>] :
        c \in {[fr |-> "stop", content |-> "sorted"],
               [fr |-> "length", content |-> ""],
               [fr |-> "content_filter", content |-> "sorted"],
               [fr |-> "tool_calls", content |-> ""]}}
    \union
    {[throws |-> FALSE, thrown |-> "",
      choices |-> <<[finish_reason |-> "stop",
                     message |-> Msg("assistant", "", TRUE,
                                     ToolCallList(MaxToolCalls - left, 0), "", "")]>>]}
    \union
    {[throws |-> FALSE, thrown |-> "",
      choices |-> <<[finish_reason |-> "tool_calls",
                     message |-> Msg("assistant", "", TRUE,
                                     ToolCallList(MaxToolCalls - left, n), "", "")]>>] :
        n \in 0..left}

\* an AgentStepResult; error "" is an absent error
StepResult(done, hasMessage, message, toolCalls, finalAnswer, error) ==
    [done |-> done, hasMessage |-> hasMessage, message |-> message,
     toolCalls |-> toolCalls, finalAnswer |-> finalAnswer, error |-> error]

\* step(state), lines 131-196, on the response of the LLM call
step(response, toolExecutor) ==
    IF response.throws
    THEN StepResult(TRUE, FALSE, NoMessage, <<>>, "", formatError(response.thrown))
    ELSE IF response.choices = <<>>
    THEN StepResult(TRUE, FALSE, NoMessage, <<>>, "", "No response from LLM")
    ELSE LET choice == response.choices[1]
             message == choice.message
         IN  IF choice.finish_reason \in {"stop", "length"}
             THEN StepResult(TRUE, TRUE, message, <<>>, message.content, "")
             ELSE IF choice.finish_reason = "tool_calls" /\ message.hasToolCalls
             THEN IF ~toolExecutor
                  THEN StepResult(TRUE, FALSE, NoMessage, <<>>, "",
                                  "Tool calls requested but no tool executor provided")
                  ELSE StepResult(FALSE, TRUE, message, message.tool_calls, "", "")
             ELSE StepResult(TRUE, TRUE, message, <<>>, message.content, "")

\* what the tool executor does with a tool call: it returns a result, with or
\* without an error, or throws
ToolOutcomes(toolCall) ==
    {[throws |-> FALSE, thrown |-> "", tool_call_id |-> toolCall.id, content |-> "a.md", error |-> ""],
     [throws |-> FALSE, thrown |-> "", tool_call_id |-> toolCall.id, content |-> "", error |-> "no such folder"],
     [throws |-> TRUE, thrown |-> "denied", tool_call_id |-> "", content |-> "", error |-> ""]}

\* the payload of the tool_result event, lines 311-327
ToolResult(toolCall, outcome) ==
    IF outcome.throws
    THEN [tool_call_id |-> toolCall.id, content |-> "", error |-> formatError(outcome.thrown)]
    ELSE [tool_call_id |-> outcome.tool_call_id, content |-> outcome.content,
          error |-> outcome.error]

\* reduce(state, event), lines 231-272: the messages of the new state
reduce(messages, event) ==
    IF event.type = "user_message"
    THEN Append(messages, UserMessage(event.payload))
    ELSE IF event.type = "assistant_message"
    THEN Append(messages, event.payload)
    ELSE IF event.type = "tool_result"
    THEN Append(messages,
                Msg("tool",
                    IF event.payload.error # "" THEN event.payload.error
                    ELSE event.payload.content,
                    FALSE, <<>>, event.payload.tool_call_id,
                    IF event.payload.error # "" THEN "error" ELSE ""))
    ELSE messages

\* launch(initialEvent), lines 202-221: the messages of the initial state
launch(hasMessage, message) == IF hasMessage /\ message # "" THEN <<UserMessage(message)>> ELSE <<>>

\* the states resume is called with: one saved after a tool call was
\* answered
SavedStates ==
    {<<UserMessage("sort /r"),
       Msg("assistant", "", TRUE, <<[id |-> "t0", name |-> "list"]>>, "", ""),
       Msg("tool", "a.md", FALSE, <<>>, "t0", "")>>}

\* after new Agent(config), with or without setToolExecutor
InitAgent ==
    /\ \E config \in Configs : \E toolExecutor \in BOOLEAN :
          agent = [pc |-> "idle", entry |-> "none", config |-> config,
                   maxIterations |-> MaxIterations(config),
                   toolExecutor |-> toolExecutor, start |-> <<>>, messages |-> <<>>,
                   iterations |-> 0, trace |-> <<>>, todo |-> <<>>, asked |-> 0,
                   result |-> NoReturn]
    /\ NoFlow
    /\ NoScanner
    /\ NoTree
    /\ files = NoFiles
    /\ dirs = {}
    /\ logs = NoLogs
    /\ now = Clock0
    /\ call = [c \in Callers |-> Idle]
    /\ last = NoCall
    /\ lost = {}
    /\ nExec = 0
    /\ nUndo = 0

\* run(initialEvent), lines 283-284: launch, iterations = 0
Run ==
    /\ agent.pc = "idle"
    /\ \E hasMessage \in BOOLEAN :
          agent' = [agent EXCEPT !.pc = "loop", !.entry = "run",
                                 !.start = launch(hasMessage, "sort /r"),
                                 !.messages = launch(hasMessage, "sort /r"),
                                 !.iterations = 0]
    /\ UNCHANGED <<execVars, treeVars, scanVars, flow>>

\* resume(state), lines 364-365: currentState = state, iterations = 0
Resume ==
    /\ agent.pc = "idle"
    /\ \E state \in SavedStates :
          agent' = [agent EXCEPT !.pc = "loop", !.entry = "resume", !.start = state,
                                 !.messages = state, !.iterations = 0]
    /\ UNCHANGED <<execVars, treeVars, scanVars, flow>>

\* one pass of the loop of run (lines 286-313) and of resume (lines 367-394)
\* up to the tool calls: the step, and either the return on a step that is
\* done or the assistant message added to the state
Step ==
    /\ agent.pc = "loop"
    /\ agent.iterations < agent.maxIterations
    /\ \E response \in Responses(MaxToolCalls - agent.asked) :
       \E stepResult \in {step(response, agent.toolExecutor)} :
          IF stepResult.done
          THEN IF stepResult.error # ""
               THEN agent' = [agent EXCEPT !.pc = "returned",
                                 !.trace = Append(@, stepResult),
                                 !.result = [kind |-> "error", state |-> agent.messages,
                                             finalAnswer |-> "", error |-> stepResult.error]]
               ELSE \E state \in {IF stepResult.hasMessage
                                  THEN reduce(agent.messages,
                                              [type |-> "assistant_message",
                                               payload |-> stepResult.message])
                                  ELSE agent.messages} :
                       agent' = [agent EXCEPT !.pc = "returned",
                                    !.trace = Append(@, stepResult),
                                    !.messages = state,
                                    !.result = [kind |-> "answer", state |-> state,
                                                finalAnswer |-> stepResult.finalAnswer,
                                                error |-> ""]]
          ELSE agent' = [agent EXCEPT !.pc = "tools",
                            !.trace = Append(@, stepResult),
                            !.asked = @ + Len(stepResult.toolCalls),
                            !.messages = IF stepResult.hasMessage
                                         THEN reduce(@, [type |-> "assistant_message",
                                                         payload |-> stepResult.message])
                                         ELSE @,
                            !.todo = IF stepResult.hasMessage /\ agent.toolExecutor
                                     THEN stepResult.toolCalls ELSE <<>>]
    /\ UNCHANGED <<execVars, treeVars, scanVars, flow>>

\* lines 311-327 and 392-408, one pass of the for loop: the tool executor is
\* awaited and its result, or its error, is added to the state
ExecuteTool ==
    /\ agent.pc = "tools"
    /\ agent.todo # <<>>
    /\ \E outcome \in ToolOutcomes(Head(agent.todo)) :
          agent' = [agent EXCEPT
                       !.messages = reduce(@, [type |-> "tool_result",
                                               payload |-> ToolResult(Head(agent.todo), outcome)]),
                       !.todo = Tail(@)]
    /\ UNCHANGED <<execVars, treeVars, scanVars, flow>>

\* lines 332 and 413: iterations++
NextIteration ==
    /\ agent.pc = "tools"
    /\ agent.todo = <<>>
    /\ agent' = [agent EXCEPT !.pc = "loop", !.iterations = @ + 1]
    /\ UNCHANGED <<execVars, treeVars, scanVars, flow>>

MaxIterationsError(n) == "Max iterations (" \o ToStr(n) \o ") reached"

\* lines 335-338 and 416-419: the loop ended without a step that was done
GiveUp ==
    /\ agent.pc = "loop"
    /\ agent.iterations >= agent.maxIterations
    /\ agent' = [agent EXCEPT !.pc = "returned",
                    !.result = [kind |-> "error", state |-> agent.messages,
                                finalAnswer |-> "",
                                error |-> MaxIterationsError(agent.maxIterations)]]
    /\ UNCHANGED <<execVars, treeVars, scanVars, flow>>

\* the steps of a call in flight
Proceed == Step \/ ExecuteTool \/ NextIteration \/ GiveUp

NextAgent ==
    \/ Run
    \/ Resume
    \/ Step
    \/ ExecuteTool
    \/ NextIteration
    \/ GiveUp

\* every LLM call and every tool call returns
SpecAgent == InitAgent /\ [][NextAgent]_vars /\ WF_vars(Proceed)

\* ------------------------------------------------------ claims on the Agent
\* a tool-result message as far as the call it answers goes
Answering(m) ==
    IF m.role = "tool" THEN Msg("tool", "", FALSE, <<>>, m.tool_call_id, "") ELSE m

RECURSIVE Grown(_)
\* what the steps made so far add to the messages once their tool calls are
\* answered: per step its assistant message, then one tool-result message
\* per tool call, in the order of the calls
Grown(steps) ==
    IF steps = <<>> THEN <<>>
    ELSE LET r == Last(steps)
         IN  Grown(Front(steps))
                \o (IF r.hasMessage /\ r.error = "" THEN <<r.message>> ELSE <<>>)
                \o [j \in 1..Len(r.toolCalls) |->
                       Msg("tool", "", FALSE, <<>>, r.toolCalls[j].id, "")]

\* the run or resume call in flight, or returned, went as its steps say
SteppedAsConfigured ==
    agent.pc \in {"loop", "tools", "returned"} =>
        LET steps == agent.trace
            n == agent.maxIterations
            added == SubSeq(agent.messages, Len(agent.start) + 1, Len(agent.messages))
        IN  /\ n = IF agent.config.set /\ agent.config.value # 0
                   THEN agent.config.value ELSE 10
            /\ Len(steps) <= n
            /\ \A k \in 1..(Len(steps) - 1) : ~steps[k].done
            /\ (steps # <<>> /\ Last(steps).done) => agent.pc = "returned"
            /\ IsPrefix(agent.start, agent.messages)
            /\ [k \in 1..Len(added) |-> Answering(added[k])]
                  = SubSeq(Grown(steps), 1, Len(Grown(steps)) - Len(agent.todo))
            /\ agent.pc = "returned" =>
                  /\ agent.result.state = agent.messages
                  /\ IF steps # <<>> /\ Last(steps).done
                     THEN IF Last(steps).error # ""
                          THEN /\ agent.result.kind = "error"
                               /\ agent.result.error = Last(steps).error
                          ELSE /\ agent.result.kind = "answer"
                               /\ agent.result.finalAnswer = Last(steps).finalAnswer
                     ELSE /\ Len(steps) = n
                          /\ agent.result.kind = "error"
                          /\ agent.result.error = "Max iterations (" \o ToStr(n) \o ") reached"
                          /\ n = 10 => agent.result.error = "Max iterations (10) reached"

\* C30: when every LLM call and every tool call returns, run and resume
\* return; they call step at most maxIterations times, 10 when maxIterations
\* is absent or 0; they return at the first step that is done, with its
\* error or its finalAnswer, and otherwise with 'Max iterations (n) reached';
\* the messages only grow, by the assistant message of each step and one
\* tool-result message per tool call.
C30_AgentTerminates ==
    /\ []SteppedAsConfigured
    /\ (agent.pc \in {"loop", "tools"}) ~> (agent.pc = "returned")

\* a run without maxIterations that gave up after ten steps, two tool calls
\* of one step answered on the way
C30_GaveUpAfterTenSteps ==
    /\ agent.pc = "returned"
    /\ ~agent.config.set
    /\ Len(agent.trace) = 10
    /\ agent.result.error = "Max iterations (10) reached"
    /\ \E k \in 1..10 : Len(agent.trace[k].toolCalls) = 2
    /\ Len(agent.messages) = Len(agent.start) + 12

====
